---- MODULE Spec2Model ----
(***************************************************************************)
(* Model of the vectorize server and of the design panel of                *)
(* meysood/my-canva-app.                                                   *)
(*                                                                         *)
(* The repository holds five snapshots of the server:                      *)
(*   src/unnamed/part_001  first server, one endpoint (not modelled)       *)
(*   src/unnamed/part_000  callback style handlers, extractSubpaths        *)
(*   src/server/index.js   processImage/extractPaths, text-to-frame        *)
(*   src/unnamed/part_003  extractCompoundPaths, font table                *)
(*   src/unnamed/part_002  splitToSingleMovePaths, individual text mode,   *)
(*                         shape-to-frame                                  *)
(* The variable ver says which snapshot is running.                        *)
(*                                                                         *)
(* Strings are sequences of one-character strings (UTF-16 code units).     *)
(* sharp (image library) and potrace (tracer) are collaborators: what they *)
(* do with an input is a fixed function of that input, and the input       *)
(* records carry it (a file record says whether it decodes, whether it     *)
(* traces and which document the tracer gives back).                       *)
(*                                                                         *)
(* src/src/index.tsx holds two design panels one after the other: the      *)
(* panel with a free and a Pro tier (lines 1-570) and the panel without    *)
(* tiers (lines 572-954).  The variable panel says which one is mounted.   *)
(* The Canva SDK (addElementAtPoint, getDefaultPageDimensions) and the     *)
(* backend are collaborators: a call of them resolves or rejects, and      *)
(* addElementAtPoint adds its element exactly when it resolves.            *)
(***************************************************************************)
EXTENDS Integers, Sequences, FiniteSets, TLC

VARIABLES
  ver,      \* the server snapshot that is running
  pc,       \* pc[r]: position of request r's handler
  input,    \* input[r]: the request (endpoint, files, body)
  idx,      \* idx[r]: loop index of the batch / per letter loop (1-based)
  results,  \* results[r]: the results array of the batch / per letter loop
  calls,    \* calls[r]: the collaborator calls made for request r, in order
  resp,     \* resp[r]: the responses sent for request r, in order
  arg,      \* argument of the pure function under test (SpecDecompose)
  ret,      \* its result
  first,    \* an earlier single conversion and its answer, kept to compare
            \* a later run of the same request with (SpecTwice)
  panel,         \* the design panel that is mounted
  isPro,         \* React state of App
  isConverting,  \* React state of App
  selectedFile,  \* React state of App
  dailyUsage,    \* React state of App
  activeTab,     \* React state of App
  status,        \* React state of App
  storage,       \* localStorage: today's usage count and the frame library
  now,           \* the last value Date.now() gave
  design,        \* the elements added to the design, in order
  running,       \* running[c]: the c-th invocation of an async handler
  timers         \* the timeouts that are pending

panelVars == <<panel, isPro, isConverting, selectedFile, dailyUsage, activeTab, status,
               storage, now, design, running, timers>>

vars == <<ver, pc, input, idx, results, calls, resp, arg, ret, first, panelVars>>

serverVars == <<ver, pc, input, idx, results, calls, resp, first>>

\* nothing is kept
NoAnswer == [kept |-> FALSE]

-----------------------------------------------------------------------------
(* Bounds of the model.                                                    *)

\* longest path-data string enumerated exhaustively
MaxLen == 4

\* longest viewBox token enumerated exhaustively
MaxTokLen == 3

\* most <path> elements in an enumerated document
MaxPaths == 2

\* most invocations of the panel's async handlers in one run
MaxCalls == 2

\* most entries with paths in a batch or per letter answer of the backend
MaxResults == 1

\* most saveFrame and deleteFrame calls in one run of the library
MaxLibraryCalls == 3

\* most files in a batch upload
MaxFiles == 3

\* longest text enumerated (in characters)
MaxText == 3

\* pixels of an enumerated image
MaxPixels == 2

-----------------------------------------------------------------------------
(* Strings.                                                                *)

\* String.prototype.trim's white space, reduced to the space character
IsWs(c) == c = " "

RECURSIVE trimStart(_)
trimStart(s) ==
  IF s = <<>> THEN s
  ELSE IF IsWs(Head(s)) THEN trimStart(Tail(s)) ELSE s

RECURSIVE trimEnd(_)
trimEnd(s) ==
  IF s = <<>> THEN s
  ELSE IF IsWs(s[Len(s)]) THEN trimEnd(SubSeq(s, 1, Len(s) - 1)) ELSE s

trim(s) == trimEnd(trimStart(s))

\* String.prototype.substring(0, n)
substring0(s, n) == SubSeq(s, 1, IF Len(s) < n THEN Len(s) ELSE n)

IsMove(c) == c = "M" \/ c = "m"

IsClose(c) == c = "Z" \/ c = "z"

\* [f(s[1]), ..., f(s[n])]
MapSeq(s, f(_)) == [i \in 1..Len(s) |-> f(s[i])]

\* the strings of length lo..hi over the alphabet
StringsOver(alphabet, lo, hi) ==
  UNION {[1..n -> alphabet] : n \in lo..hi}

\* n copies of x
Repeat(x, n) == [i \in 1..n |-> x]

RECURSIVE Pow10(_)
Pow10(n) == IF n = 0 THEN 1 ELSE 10 * Pow10(n - 1)

-----------------------------------------------------------------------------
(* JavaScript numbers, as far as extractViewBox needs them: NaN or a       *)
(* decimal, held as value * Scale.                                         *)

Scale == Pow10(MaxTokLen)

NaN == [nan |-> TRUE, scaled |-> 0]

Num(n) == [nan |-> FALSE, scaled |-> n * Scale]

IsDigit(c) == c = "1"

RECURSIVE DigitsValue(_)
DigitsValue(s) ==
  IF s = <<>> THEN 0 ELSE 10 * DigitsValue(SubSeq(s, 1, Len(s) - 1)) + 1

\* Number(tok) for a token of the characters the viewBox pattern lets through
\* (digits, '.', '-'): StrDecimalLiteral is [-] digits [. [digits]] | [-] . digits
Number(tok) ==
  LET neg == tok # <<>> /\ tok[1] = "-"
      body == IF neg THEN Tail(tok) ELSE tok
      dots == {i \in 1..Len(body) : body[i] = "."}
      dot == IF dots = {} THEN Len(body) + 1 ELSE CHOOSE i \in dots : TRUE
      int == SubSeq(body, 1, dot - 1)
      frac == SubSeq(body, dot + 1, Len(body))
      wellFormed ==
        /\ \A i \in 1..Len(body) : IsDigit(body[i]) \/ body[i] = "."
        /\ Cardinality(dots) <= 1
        /\ Len(int) + Len(frac) >= 1
      magnitude ==
        DigitsValue(int) * Scale + DigitsValue(frac) * Pow10(MaxTokLen - Len(frac))
  IN IF wellFormed
     THEN [nan |-> FALSE, scaled |-> IF neg THEN 0 - magnitude ELSE magnitude]
     ELSE NaN

-----------------------------------------------------------------------------
(* The tracer's document.  svg.viewBox is the value of the viewBox         *)
(* attribute as its white-space separated tokens (<<>>: no viewBox         *)
(* attribute); svg.paths holds the d attribute of every <path> element in  *)
(* document order.                                                         *)

\* the characters of the class [\d.\-]
IsViewBoxChar(c) == IsDigit(c) \/ c = "." \/ c = "-"

\* /viewBox="([\d.\-]+)\s+([\d.\-]+)\s+([\d.\-]+)\s+([\d.\-]+)"/
ViewBoxMatch(svg) ==
  /\ Len(svg.viewBox) = 4
  /\ \A k \in 1..4 :
       /\ svg.viewBox[k] # <<>>
       /\ \A i \in 1..Len(svg.viewBox[k]) : IsViewBoxChar(svg.viewBox[k][i])

DefaultViewBox ==
  [width |-> Num(1000), height |-> Num(1000), left |-> Num(0), top |-> Num(0)]

extractViewBox(svg) ==
  IF ~ViewBoxMatch(svg) THEN DefaultViewBox
  ELSE [left |-> Number(svg.viewBox[1]), top |-> Number(svg.viewBox[2]),
        width |-> Number(svg.viewBox[3]), height |-> Number(svg.viewBox[4])]

\* svg.matchAll(/<path[^>]*d="([^"]+)"/g): the captures, in document order;
\* [^"]+ needs one character at least
PathMatches(svg) == SelectSeq(svg.paths, LAMBDA d : d # <<>>)

-----------------------------------------------------------------------------
(* Flatten decomposition, first form (part_000, server/index.js).          *)

\* the positions of M and m in d, ascending
MoveIndexes(d) ==
  SelectSeq([i \in 1..Len(d) |-> i], LAMBDA i : IsMove(d[i]))

\* variant: a string of two subpaths is returned whole (idx.length <= 2)
extractSubpathsTwoWhole(d) ==
  LET idx0 == MoveIndexes(d)
      piece(i) ==
        trim(SubSeq(d, idx0[i],
                    IF i + 1 <= Len(idx0) THEN idx0[i + 1] - 1 ELSE Len(d)))
      parts == SelectSeq([i \in 1..Len(idx0) |-> piece(i)], LAMBDA p : p # <<>>)
  IN IF Len(idx0) <= 2 THEN <<trim(d)>>
     ELSE SelectSeq(parts, LAMBDA p : IsMove(p[1]))

extractSubpaths(d) ==
  LET idx0 == MoveIndexes(d)
      piece(i) ==
        trim(SubSeq(d, idx0[i],
                    IF i + 1 <= Len(idx0) THEN idx0[i + 1] - 1 ELSE Len(d)))
      parts == SelectSeq([i \in 1..Len(idx0) |-> piece(i)], LAMBDA p : p # <<>>)
  IN IF Len(idx0) <= 1 THEN <<trim(d)>>
     ELSE SelectSeq(parts, LAMBDA p : IsMove(p[1]))

(* Flatten decomposition, second form (part_002).                          *)

\* fragments of at most this many characters are dropped
MinFragmentLen == 3

\* TLC evaluates a definition of a LET when it is first used: the test makes it
\* evaluate the first half of a loop before it enters the second
Evaluated(x) == x = x

\* one turn of: for (let i = 0; i < d.length; i++) { ...; current += char; }
splitStep(st, char) ==
  LET flush == IsMove(char) /\ Len(trim(st.current)) > 0
  IN [parts |-> IF flush THEN Append(st.parts, trim(st.current)) ELSE st.parts,
      current |-> (IF flush THEN <<>> ELSE st.current) \o <<char>>]

\* the turns for d[lo], ..., d[hi] in this order; the range is halved to keep
\* TLC's evaluation shallow, and a loop that has been left skips the rest
RECURSIVE splitLoop(_, _, _, _)
splitLoop(st, d, lo, hi) ==
  IF lo > hi THEN st
  ELSE IF lo = hi THEN splitStep(st, d[lo])
  ELSE LET left == splitLoop(st, d, lo, (lo + hi) \div 2)
       IN IF Evaluated(left) THEN splitLoop(left, d, (lo + hi) \div 2 + 1, hi)
          ELSE left

closeFragment(p) ==
  LET t == trim(p)
  IN IF t # <<>> /\ IsClose(t[Len(t)]) THEN t ELSE t \o <<" ", "Z">>

splitToSingleMovePaths(d) ==
  LET l == splitLoop([parts |-> <<>>, current |-> <<>>], d, 1, Len(d))
      parts == IF trim(l.current) # <<>>
               THEN Append(l.parts, trim(l.current)) ELSE l.parts
  IN MapSeq(SelectSeq(parts, LAMBDA p : Len(p) > MinFragmentLen), closeFragment)

-----------------------------------------------------------------------------
(* The capped scan.                                                        *)

\* A loop that can be left by break carries the flag broken; a turn after
\* the break does nothing.

\* variant: the inner loop tests paths.length > limit
pushStepLate(st, s, limit) ==
  IF st.broken THEN st
  ELSE [paths |-> Append(st.paths, s), broken |-> Len(st.paths) + 1 > limit]

\* one turn of: for (const s of sub) { paths.push(s); if (paths.length >= limit) break; }
pushStep(st, s, limit) ==
  IF st.broken THEN st
  ELSE [paths |-> Append(st.paths, s), broken |-> Len(st.paths) + 1 >= limit]

\* the turns for sub[lo], ..., sub[hi] in this order
RECURSIVE pushFragments(_, _, _, _, _)
pushFragments(st, sub, lo, hi, limit) ==
  IF lo > hi THEN st
  ELSE IF lo = hi THEN pushStep(st, sub[lo], limit)
  ELSE LET left == pushFragments(st, sub, lo, (lo + hi) \div 2, limit)
       IN IF left.broken THEN left
          ELSE pushFragments(left, sub, (lo + hi) \div 2 + 1, hi, limit)

\* variant: the outer loop has no break of its own
scanStepNoBreak(st, d, limit, flatten) ==
  LET sub == IF flatten = "subpaths" THEN extractSubpaths(d)
             ELSE splitToSingleMovePaths(trim(d))
  IN [paths |-> pushFragments([paths |-> st.paths, broken |-> FALSE],
                              sub, 1, Len(sub), limit).paths,
      broken |-> FALSE]

\* one turn of: for (const m of matches) { <inner loop>; if (paths.length >= limit) break; }
\* flatten names the splitter: "subpaths" extractSubpaths(m[1]),
\* "singleMove" splitToSingleMovePaths(m[1].trim())
scanStep(st, d, limit, flatten) ==
  IF st.broken THEN st
  ELSE LET sub == IF flatten = "subpaths" THEN extractSubpaths(d)
                  ELSE splitToSingleMovePaths(trim(d))
           paths == pushFragments([paths |-> st.paths, broken |-> FALSE],
                                  sub, 1, Len(sub), limit).paths
       IN [paths |-> paths, broken |-> Len(paths) >= limit]

\* the turns for matches[lo], ..., matches[hi] in this order
RECURSIVE scanMatches(_, _, _, _, _, _)
scanMatches(st, matches, lo, hi, limit, flatten) ==
  IF lo > hi THEN st
  ELSE IF lo = hi THEN scanStep(st, matches[lo], limit, flatten)
  ELSE LET left == scanMatches(st, matches, lo, (lo + hi) \div 2, limit, flatten)
       IN IF left.broken THEN left
          ELSE scanMatches(left, matches, (lo + hi) \div 2 + 1, hi, limit, flatten)

\* variant: the array is shared by all calls (const paths = [] at module
\* level): it still holds the records of an earlier conversion
NoPathsShared ==
  [paths |-> IF first.kept /\ "paths" \in DOMAIN first.body THEN first.body.paths
             ELSE <<>>,
   broken |-> FALSE]

NoPaths == [paths |-> <<>>, broken |-> FALSE]

\* extractPaths of server/index.js, and the same loop inlined in the trace
\* callbacks of part_000
extractPaths(svg, limit) ==
  [paths |-> scanMatches(NoPaths, PathMatches(svg), 1, Len(PathMatches(svg)),
                         limit, "subpaths").paths,
   viewBox |-> extractViewBox(svg)]

\* extractPaths of part_002
extractPathsSingleMove(svg, limit) ==
  [paths |-> scanMatches(NoPaths, PathMatches(svg), 1, Len(PathMatches(svg)),
                         limit, "singleMove").paths,
   viewBox |-> extractViewBox(svg)]

\* one turn of: for (const m of matches) {
\*   const d = m[1].trim(); if (d) { paths.push(d); if (paths.length >= limit) break; } }
compoundStep(st, m, limit) ==
  IF st.broken \/ trim(m) = <<>> THEN st
  ELSE [paths |-> Append(st.paths, trim(m)), broken |-> Len(st.paths) + 1 >= limit]

\* the turns for matches[lo], ..., matches[hi] in this order
RECURSIVE scanCompound(_, _, _, _, _)
scanCompound(st, matches, lo, hi, limit) ==
  IF lo > hi THEN st
  ELSE IF lo = hi THEN compoundStep(st, matches[lo], limit)
  ELSE LET left == scanCompound(st, matches, lo, (lo + hi) \div 2, limit)
       IN IF left.broken THEN left
          ELSE scanCompound(left, matches, (lo + hi) \div 2 + 1, hi, limit)

\* extractCompoundPaths of part_003
extractCompoundPaths(svg, limit) ==
  [paths |-> scanCompound(NoPaths, PathMatches(svg), 1, Len(PathMatches(svg)), limit).paths,
   viewBox |-> extractViewBox(svg)]

\* the default value of the limit parameter; no caller passes another
DefaultLimit == 200

DefaultLimitSingleMove == 300

-----------------------------------------------------------------------------
(* Inputs of the server.                                                   *)

\* the requests in progress; Spec follows request 1 alone, SpecConcurrent
\* interleaves the two
ReqIds == {1, 2}

Versions == {"part_000", "server", "part_003", "part_002"}

\* a viewBox attribute as potrace writes it
TracedViewBox == <<<<"1">>, <<"1">>, <<"1", "1">>, <<"1", "1">>>>

\* one closed contour:                          M1 1Z
Contour == <<"M", "1", " ", "1", "Z">>

\* a ring, outer contour and hole (the glyph O): M1 1ZM1 1Z
Ring == Contour \o Contour

\* potrace's document for a raster without foreground: <path d=""/>
BlankSvg == [viewBox |-> TracedViewBox, paths |-> <<<<>>>>]

ContourSvg == [viewBox |-> TracedViewBox, paths |-> <<Contour>>]

RingSvg == [viewBox |-> TracedViewBox, paths |-> <<Ring>>]

\* an uploaded file: its name, and what sharp and potrace make of its bytes
File(name, decodes, hasAlpha, traces, svg) ==
  [name |-> name, decodes |-> decodes, hasAlpha |-> hasAlpha,
   traces |-> traces, svg |-> svg]

FileNames == {"a.png", "b.png"}

\* zero-byte or corrupt / tracer rejects it / blank / one contour
BatchFiles ==
  {File(n, FALSE, FALSE, FALSE, BlankSvg) : n \in FileNames}
  \cup {File(n, TRUE, FALSE, FALSE, BlankSvg) : n \in FileNames}
  \cup {File(n, TRUE, FALSE, TRUE, d) : n \in FileNames, d \in {BlankSvg, ContourSvg}}

SingleFiles ==
  BatchFiles
  \cup {File("a.png", TRUE, a, TRUE, d) : a \in BOOLEAN, d \in {BlankSvg, ContourSvg, RingSvg}}

\* UTF-16 code units of a text: two letters, the space, a control character
\* (not allowed in XML: the SVG of the text does not render), a zero width
\* character (no ink, and no white space for trim()), and the two halves of a
\* character outside the basic plane
TextChars == {<<"A">>, <<"O">>, <<" ">>, <<"Ctl">>, <<"Zw">>, <<"Hi", "Lo">>}

\* ss[lo] \o ... \o ss[hi]
RECURSIVE Concat(_, _, _)
Concat(ss, lo, hi) ==
  IF lo > hi THEN <<>>
  ELSE IF lo = hi THEN ss[lo]
  ELSE Concat(ss, lo, (lo + hi) \div 2) \o Concat(ss, (lo + hi) \div 2 + 1, hi)

Flatten(ss) == Concat(ss, 1, Len(ss))

\* the texts of at most n characters
Texts(n) == {Flatten(cs) : cs \in StringsOver(TextChars, 0, n)}

\* texts around the truncation lengths
LongTexts == {Repeat("A", n) : n \in {50, 51, 100, 101}}

TextModes == {"absent", "combined", "individual"}

\* req.body of /text-to-frame; hasText FALSE: no text field
TextBodies ==
  {[hasText |-> FALSE, text |-> <<>>, mode |-> m] : m \in TextModes}
  \cup {[hasText |-> TRUE, text |-> t, mode |-> m] :
          t \in Texts(MaxText) \cup LongTexts, m \in TextModes}

NoBody == [hasText |-> FALSE, text |-> <<>>, mode |-> "absent"]

Request(endpoint, files, body) ==
  [endpoint |-> endpoint, files |-> files, body |-> body]

SingleFileEndpoints(v) ==
  {"/vectorize", "/smart-crop", "/remove-bg"}
  \cup (IF v = "part_002" THEN {"/shape-to-frame"} ELSE {})

HasTextEndpoint(v) == v # "part_000"

\* the requests snapshot v serves
Requests(v) ==
  {Request(e, fs, NoBody) :
     e \in SingleFileEndpoints(v), fs \in {<<>>} \cup {<<f>> : f \in SingleFiles}}
  \cup {Request("/vectorize-batch", fs, NoBody) :
          fs \in StringsOver(BatchFiles, 0, MaxFiles)}
  \cup (IF HasTextEndpoint(v)
        THEN {Request("/text-to-frame", <<>>, b) : b \in TextBodies} ELSE {})

NoRequest == Request("none", <<>>, NoBody)

-----------------------------------------------------------------------------
(* What the handlers of a snapshot do with a request.                      *)

IsText(req) == req.endpoint = "/text-to-frame"

\* variant: the validation does not trim (if (!text))
NoTextUntrimmed(body) == ~body.hasText \/ body.text = <<>>

\* if (!text || !text.trim())
NoText(body) == ~body.hasText \/ body.text = <<>> \/ trim(body.text) = <<>>

\* text.trim().substring(0, n): n is 100 in server/index.js, 50 later
TextLimit(v) == IF v = "server" THEN 100 ELSE 50

cleanText(v, body) == substring0(trim(body.text), TextLimit(v))

\* const isIndividual = mode === "individual" (part_002 alone reads mode)
isIndividual(v, req) ==
  IsText(req) /\ v = "part_002" /\ req.body.mode = "individual"

\* cleanText.split("").filter(c => c.trim())
letters(v, body) == SelectSeq(cleanText(v, body), LAMBDA c : ~IsWs(c))

\* the handler runs its pipeline in a loop with a try/catch per item
IsLoop(v, req) == req.endpoint = "/vectorize-batch" \/ isIndividual(v, req)

\* the whole-request validation at the head of every handler
Invalid(req) == IF IsText(req) THEN NoText(req.body) ELSE req.files = <<>>

ValidationMessage(v, req) ==
  IF IsText(req) THEN "No text provided"
  ELSE IF req.endpoint = "/vectorize-batch"
       THEN (IF v \in {"part_000", "server"} THEN "No files uploaded" ELSE "No files")
       ELSE "No file uploaded"

\* the inputs the pipeline runs on: the files, the letters, or the whole text
Items(v, req) ==
  IF IsText(req)
  THEN IF isIndividual(v, req)
       THEN MapSeq(letters(v, req.body), LAMBDA c : <<c>>)
       ELSE <<cleanText(v, req.body)>>
  ELSE req.files

\* variant: the tracer is called on the buffer first, the image library after
PlanTraceFirst(v, req, item) ==
  IF req.endpoint = "/text-to-frame"
  THEN <<"trace", "render", "trim", "normalize">>
  ELSE <<"trace", "metadata", "normalize">>

\* the awaited operations of one pipeline run, in order
Plan(v, req, item) ==
  CASE req.endpoint = "/smart-crop" ->
         IF v = "part_000" THEN <<"metadata", "trim", "normalize", "trace">>
         ELSE <<"trim", "metadata", "normalize", "trace">>
    [] req.endpoint = "/remove-bg" ->
         <<"metadata", IF item.hasAlpha THEN "alpha" ELSE "invert", "trace">>
    [] req.endpoint = "/shape-to-frame" ->
         <<"trim", "metadata", "normalize", "trace">>
    [] req.endpoint = "/text-to-frame" ->
         IF v = "server" THEN <<"render", "trim", "metadata", "normalize", "trace">>
         ELSE <<"render", "trim", "normalize", "trace">>
    [] OTHER -> <<"metadata", "normalize", "trace">>

Stages == {"metadata", "trim", "normalize", "alpha", "invert", "render", "trace"}

\* the threshold of the sharp pipeline that binarizes, and of the tracer call
SharpThreshold(v, req, op) ==
  CASE op = "alpha" -> 128
    [] op = "invert" -> 200
    [] op = "normalize" ->
         (CASE req.endpoint = "/text-to-frame" -> 128
            [] req.endpoint = "/shape-to-frame" -> 140
            [] OTHER -> 160)
    [] OTHER -> 0

TraceThreshold(v, req) ==
  CASE req.endpoint = "/remove-bg" -> 128
    [] req.endpoint = "/text-to-frame" -> 128
    [] req.endpoint = "/shape-to-frame" -> 140
    [] OTHER -> 160

turdSize(v, req) ==
  CASE req.endpoint = "/remove-bg" -> 15
    [] req.endpoint = "/text-to-frame" -> (IF v = "server" THEN 5 ELSE 2)
    [] req.endpoint = "/shape-to-frame" -> 5
    [] OTHER -> 20

Call(v, req, op, i) ==
  [op |-> op, item |-> i,
   threshold |-> IF op = "trace" THEN TraceThreshold(v, req)
                 ELSE SharpThreshold(v, req, op),
   turdSize |-> IF op = "trace" THEN turdSize(v, req) ELSE 0]

(* The collaborators.                                                      *)

\* what potrace draws for a code unit: a lone half of a surrogate pair
\* renders as the replacement character
GlyphPath(c) ==
  CASE c = "O" -> Ring
    [] c \in {" ", "Zw", "Ctl"} -> <<>>
    [] OTHER -> Contour

\* potrace writes one <path> element for the whole raster
TextSvg(text) ==
  [viewBox |-> TracedViewBox, paths |-> <<Flatten(MapSeq(text, GlyphPath))>>]

\* does the awaited operation op succeed on the item?
StageSucceeds(req, item, op) ==
  IF IsText(req)
  THEN op # "render" \/ \A i \in 1..Len(item) : item[i] # "Ctl"
  ELSE IF op = "trace" THEN item.traces ELSE item.decodes

\* String(e) of what the failed operation threw
ErrorText(op) ==
  CASE op = "trace" -> "TraceError"
    [] op = "render" -> "RenderError"
    [] OTHER -> "DecodeError"

TracedSvg(req, item) == IF IsText(req) THEN TextSvg(item) ELSE item.svg

\* the decomposer the snapshot's handlers call, with its default limit
Decompose(v, svg) ==
  CASE v = "part_003" -> extractCompoundPaths(svg, DefaultLimit)
    [] v = "part_002" -> extractPathsSingleMove(svg, DefaultLimitSingleMove)
    [] OTHER -> extractPaths(svg, DefaultLimit)

EmptyMessage(v, req) ==
  CASE req.endpoint = "/text-to-frame" ->
         (IF v = "server" THEN "Could not convert text to paths"
          ELSE "Could not convert text")
    [] req.endpoint = "/shape-to-frame" -> "No paths found"
    [] OTHER -> "No path found"

\* the body of a single conversion's success response
SingleBody(v, req, result) ==
  CASE req.endpoint = "/smart-crop" ->
         [paths |-> result.paths, viewBox |-> result.viewBox, cropInfo |-> "info"]
    [] req.endpoint = "/text-to-frame" /\ v = "part_002" ->
         [mode |-> "combined", paths |-> result.paths, viewBox |-> result.viewBox]
    [] req.endpoint = "/text-to-frame" /\ v = "part_003" ->
         [paths |-> result.paths, viewBox |-> result.viewBox, fontUsed |-> "font"]
    [] OTHER -> result

\* results.push({ name: file.originalname, ...result }) / ({ letter, ...result })
SuccessEntry(req, item, result) ==
  IF IsText(req)
  THEN [letter |-> item[1], paths |-> result.paths, viewBox |-> result.viewBox]
  ELSE [name |-> item.name, paths |-> result.paths, viewBox |-> result.viewBox]

\* variant: the catch records the item without its error
FailEntrySilent(req, item, msg) ==
  IF IsText(req)
  THEN [letter |-> item[1], paths |-> <<>>]
  ELSE [name |-> item.name, paths |-> <<>>]

\* the catch of the loop body
FailEntry(req, item, msg) ==
  IF IsText(req)
  THEN [letter |-> item[1], paths |-> <<>>, error |-> msg]
  ELSE [name |-> item.name, error |-> msg]

\* res.json({ results }) / res.json({ mode: "individual", results })
LoopBody(req, rs) ==
  IF IsText(req) THEN [mode |-> "individual", results |-> rs]
  ELSE [results |-> rs]

-----------------------------------------------------------------------------
(* The handlers.  An action is the code a handler runs between two awaits: *)
(* the awaited operation completes, the handler continues synchronously    *)
(* and either issues the next awaited operation or sends the response.     *)

CurItem(r) == Items(ver, input[r])[idx[r]]

CurPlan(r) == Plan(ver, input[r], CurItem(r))

\* the position of the awaited operation in the plan
CurStep(r) == CHOOSE k \in 1..Len(CurPlan(r)) : CurPlan(r)[k] = pc[r]

\* variant: the check is missing
IsEmptyResultNever(result) == FALSE

\* if (!result.paths.length), the check of the single conversions
IsEmptyResult(result) == result.paths = <<>>

\* variant: the loop body has no try/catch of its own
CaughtPerItemNever(v, req) == FALSE

\* is the throwing operation inside the try/catch of a loop body?
CaughtPerItem(v, req) == IsLoop(v, req)

\* variant: results is one array at module level, shared by all requests (the
\* entries request 1 has written are in it)
pushSuccessShared(rs, req, item, result) ==
  Append(IF rs = results[1] THEN rs ELSE results[1] \o rs, SuccessEntry(req, item, result))

pushSuccess(rs, req, item, result) == Append(rs, SuccessEntry(req, item, result))

\* variant: the catch pushes nothing
pushFailureDropped(rs, req, item, msg) == rs

pushFailure(rs, req, item, msg) == Append(rs, FailEntry(req, item, msg))

\* call the collaborator for item i and await it
Await(r, i, op) ==
  /\ pc' = [pc EXCEPT ![r] = op]
  /\ idx' = [idx EXCEPT ![r] = i]
  /\ calls' = [calls EXCEPT ![r] = Append(@, Call(ver, input[r], op, i))]
  /\ UNCHANGED resp

\* variant: an error response without return, the handler runs on to res.json
RespondNoReturn(r, code, body) ==
  /\ pc' = [pc EXCEPT ![r] = "done"]
  /\ resp' = [resp EXCEPT ![r] =
       IF code = 200 THEN Append(@, [status |-> code, body |-> body])
       ELSE @ \o <<[status |-> code, body |-> body],
                   [status |-> 200, body |-> [paths |-> <<>>]]>>]
  /\ UNCHANGED <<idx, calls>>

\* res.status(status).json(body); the handler ends
Respond(r, code, body) ==
  /\ pc' = [pc EXCEPT ![r] = "done"]
  /\ resp' = [resp EXCEPT ![r] = Append(@, [status |-> code, body |-> body])]
  /\ UNCHANGED <<idx, calls>>

\* the end of a loop body, rs being the results array: the next item's first
\* operation, or res.json after the last item
NextItem(r, rs) ==
  LET items == Items(ver, input[r])
  IN /\ results' = [results EXCEPT ![r] = rs]
     /\ IF idx[r] < Len(items)
        THEN Await(r, idx[r] + 1, Plan(ver, input[r], items[idx[r] + 1])[1])
        ELSE Respond(r, 200, LoopBody(input[r], rs))

\* a request reaches the server
Arrive(r) ==
  /\ pc[r] = "idle"
  /\ \E req \in Requests(ver) : input' = [input EXCEPT ![r] = req]
  /\ pc' = [pc EXCEPT ![r] = "handler"]
  /\ UNCHANGED <<ver, idx, results, calls, resp, arg, ret, first, panelVars>>

\* the head of the handler: validation, then the first awaited operation
Start(r) ==
  /\ pc[r] = "handler"
  /\ IF Invalid(input[r])
     THEN /\ Respond(r, 400, [error |-> ValidationMessage(ver, input[r])])
          /\ UNCHANGED results
     ELSE LET items == Items(ver, input[r])
          IN /\ results' = [results EXCEPT ![r] = <<>>]
             /\ IF items = <<>>
                THEN Respond(r, 200, LoopBody(input[r], <<>>))
                ELSE Await(r, 1, Plan(ver, input[r], items[1])[1])
  /\ UNCHANGED <<ver, input, arg, ret, first, panelVars>>

\* the awaited operation succeeds
StageOk(r) ==
  /\ pc[r] \in Stages
  /\ StageSucceeds(input[r], CurItem(r), pc[r])
  /\ IF CurStep(r) < Len(CurPlan(r))
     THEN /\ Await(r, idx[r], CurPlan(r)[CurStep(r) + 1])
          /\ UNCHANGED results
     ELSE LET result == Decompose(ver, TracedSvg(input[r], CurItem(r)))
          IN IF IsLoop(ver, input[r])
             THEN NextItem(r, pushSuccess(results[r], input[r], CurItem(r), result))
             ELSE /\ UNCHANGED results
                  /\ IF IsEmptyResult(result)
                     THEN Respond(r, 500, [error |-> EmptyMessage(ver, input[r])])
                     ELSE Respond(r, 200, SingleBody(ver, input[r], result))
  /\ UNCHANGED <<ver, input, arg, ret, first, panelVars>>

\* the awaited operation throws (rejects, or calls back with an error)
StageFail(r) ==
  /\ pc[r] \in Stages
  /\ ~StageSucceeds(input[r], CurItem(r), pc[r])
  /\ IF CaughtPerItem(ver, input[r])
     THEN NextItem(r, pushFailure(results[r], input[r], CurItem(r), ErrorText(pc[r])))
     ELSE /\ Respond(r, 500, [error |-> ErrorText(pc[r])])
          /\ UNCHANGED results
  /\ UNCHANGED <<ver, input, arg, ret, first, panelVars>>

\* the request is over; the next one may arrive
Reset(r) ==
  /\ pc[r] = "done"
  /\ pc' = [pc EXCEPT ![r] = "idle"]
  /\ input' = [input EXCEPT ![r] = NoRequest]
  /\ idx' = [idx EXCEPT ![r] = 0]
  /\ results' = [results EXCEPT ![r] = <<>>]
  /\ calls' = [calls EXCEPT ![r] = <<>>]
  /\ resp' = [resp EXCEPT ![r] = <<>>]
  /\ UNCHANGED <<ver, arg, ret, first, panelVars>>

NoArg == [viewBox |-> <<>>, paths |-> <<>>]

\* the panel of lines 1-570 has a free and a Pro tier, the panel of lines
\* 572-954 has none
Panels == {"tiers", "plain"}

CallIds == 1..MaxCalls

\* useState<File | null>(null)
NoFile == "null"

NoCall ==
  [fn |-> "none", pc |-> "none", preset |-> "none", file |-> NoFile, mode |-> "none",
   left |-> 0, effect |-> "none",
   layers |-> 0, frames |-> 0, caught |-> FALSE, inner |-> "none"]

NoTimers == [clearFileSelection |-> 0, setStatus |-> 0]

\* the panel is not mounted
PanelClosed ==
  /\ panel = "tiers"
  /\ isPro = FALSE
  /\ isConverting = FALSE
  /\ selectedFile = NoFile
  /\ dailyUsage = 0
  /\ activeTab = "frames"
  /\ status = ""
  /\ storage = [usage |-> 0, library |-> <<>>]
  /\ now = 0
  /\ design = <<>>
  /\ running = [c \in CallIds |-> NoCall]
  /\ timers = NoTimers

NoRet == [fn |-> "none"]

ServerIdle ==
  /\ pc = [r \in ReqIds |-> "idle"]
  /\ input = [r \in ReqIds |-> NoRequest]
  /\ idx = [r \in ReqIds |-> 0]
  /\ results = [r \in ReqIds |-> <<>>]
  /\ calls = [r \in ReqIds |-> <<>>]
  /\ resp = [r \in ReqIds |-> <<>>]
  /\ first = NoAnswer

\* one request at a time, on any snapshot
Init ==
  /\ ver \in Versions
  /\ ServerIdle
  /\ PanelClosed
  /\ arg = NoArg
  /\ ret = NoRet

Next ==
  \/ Arrive(1)
  \/ Start(1)
  \/ StageOk(1)
  \/ StageFail(1)
  \/ Reset(1)

Spec == Init /\ [][Next]_vars

-----------------------------------------------------------------------------
(* The decomposers as pure functions of the tracer's document.             *)

PathChars == {"M", "m", "1", " ", "Z", "z"}

\* longer path-data strings: one contour, the ring, a relative and unclosed
\* second subpath, white space only, a short first fragment, white space and
\* coordinates before the first M, a lower case close
PathSamples ==
  {Contour, Ring,
   <<"M", "1", " ", "1", "Z", " ", "m", "1", " ", "1">>,
   <<" ">>,
   <<"M", "1", "M", "1", " ", "1", "Z">>,
   <<" ", "1", " ", "M", "1", " ", "1", "Z", "M", "1", " ", "1", "z", " ">>}

\* numbers of <path> elements around the limits 200 and 300, for strings of one,
\* two and three fragments
LargeCounts == {66, 67, 99, 100, 101, 149, 150, 151, 199, 200, 201, 299, 300, 301}

\* any character outside [\d.\-] is "x"
TokChars == {"1", ".", "-", "x"}

ViewBoxValues ==
  {<<>>}
  \cup UNION {[1..n -> {<<"1">>, <<"-">>}] : n \in {3, 5}}
  \cup {[b EXCEPT ![k] = t] :
          b \in [1..4 -> {<<"1">>, <<"1", "1">>}], k \in 1..4,
          t \in StringsOver(TokChars, 1, MaxTokLen)}

DecomposeInputs ==
  {[viewBox |-> TracedViewBox, paths |-> <<d>>] : d \in StringsOver(PathChars, 1, MaxLen)}
  \cup {[viewBox |-> TracedViewBox, paths |-> ds] :
          ds \in StringsOver(PathSamples \cup {<<>>}, 0, MaxPaths)}
  \cup {[viewBox |-> TracedViewBox, paths |-> Repeat(d, n)] :
          d \in PathSamples \cup {Ring \o Contour}, n \in LargeCounts}
  \cup {[viewBox |-> vb, paths |-> <<Contour>>] : vb \in ViewBoxValues}

InitDecompose ==
  /\ ver = "server"
  /\ ServerIdle
  /\ PanelClosed
  /\ arg \in DecomposeInputs
  /\ ret = NoRet

Returns(fn, limit, out) ==
  /\ ret = NoRet
  /\ ret' = [fn |-> fn, limit |-> limit, out |-> out]
  /\ UNCHANGED <<arg, serverVars, panelVars>>

CallExtractPaths ==
  Returns("extractPaths", DefaultLimit, extractPaths(arg, DefaultLimit))

CallExtractPathsSingleMove ==
  Returns("extractPathsSingleMove", DefaultLimitSingleMove,
          extractPathsSingleMove(arg, DefaultLimitSingleMove))

CallExtractCompoundPaths ==
  Returns("extractCompoundPaths", DefaultLimit, extractCompoundPaths(arg, DefaultLimit))

NextDecompose ==
  \/ CallExtractPaths
  \/ CallExtractPathsSingleMove
  \/ CallExtractCompoundPaths

SpecDecompose == InitDecompose /\ [][NextDecompose]_vars

-----------------------------------------------------------------------------
(* Properties of the decomposers (SpecDecompose).                          *)

Called == ret # NoRet

\* the number of subpath-start commands in a string
MoveCount(d) == Cardinality({i \in 1..Len(d) : IsMove(d[i])})

\* the string without its white space
Squeeze(d) == SelectSeq(d, LAMBDA c : ~IsWs(c))

\* C1: whatever the document, a decomposer returns at most limit PathRecords,
\* limit being 200 (extractPaths, extractCompoundPaths) or 300 (extractPaths of
\* part_002)
C1_AtMostCap ==
  Called =>
    /\ ret.limit \in {200, 300}
    /\ Len(ret.out.paths) <= ret.limit

\* the document holds more path strings than the limit and the result is full
C1_Witness ==
  /\ Called
  /\ Len(PathMatches(arg)) > ret.limit
  /\ Len(ret.out.paths) = ret.limit

\* the fragments of d, one per subpath-start command
Fragments(d) ==
  LET at == MoveIndexes(d)
  IN [i \in 1..Len(at) |->
        trim(SubSeq(d, at[i], IF i < Len(at) THEN at[i + 1] - 1 ELSE Len(d)))]

\* every fragment has room for a command and two coordinates (M1 1)
WellFormedFragments(d) == \A i \in 1..Len(Fragments(d)) : Len(Fragments(d)[i]) >= 4

C4_WitnessCompound ==
  /\ ret.fn = "extractCompoundPaths"
  /\ arg.paths = <<Ring>>
  /\ ret.out.paths = <<Ring>>

IsFiniteBox(vb) ==
  ~vb.left.nan /\ ~vb.top.nan /\ ~vb.width.nan /\ ~vb.height.nan

\* the pattern found four tokens and one of them is no number
ViewBoxTokenNaN ==
  /\ ViewBoxMatch(arg)
  /\ \E k \in 1..4 : Number(arg.viewBox[k]).nan

\* C5: extractViewBox returns {width: 1000, height: 1000, left: 0, top: 0}
\* when the document has no viewBox declaration or one of the four tokens is
\* not a finite number, and never a viewBox with a NaN field
C5_DefaultOnMalformed ==
  Called =>
    /\ (~ViewBoxMatch(arg) \/ ViewBoxTokenNaN) => ret.out.viewBox = DefaultViewBox
    /\ IsFiniteBox(ret.out.viewBox)

-----------------------------------------------------------------------------
(* Properties of the handlers (Spec).                                      *)

Done(r) == pc[r] = "done"

Has(rec, field) == field \in DOMAIN rec

\* the request has been answered once, with status and body
Answered(r) == Done(r) /\ Len(resp[r]) = 1

Body(r) == resp[r][1].body

Status(r) == resp[r][1].status

\* some operation of the item's pipeline fails
ItemFails(req, item) ==
  \E k \in 1..Len(Plan(ver, req, item)) :
    ~StageSucceeds(req, item, Plan(ver, req, item)[k])

\* the PathRecords the item's document decomposes to
ItemPaths(req, item) == Decompose(ver, TracedSvg(req, item)).paths

IsBatch(req) == req.endpoint = "/vectorize-batch"

\* the tag of an entry: the file name or the letter
Tag(req, e) == IF IsText(req) THEN e.letter ELSE e.name

TagOf(req, item) == IF IsText(req) THEN item[1] ELSE item.name

\* C2: a batch of N >= 1 files is answered with a results list of N entries,
\* entry i named after file i, whether the items succeeded or failed
C2_BatchMirrorsInput ==
  \A r \in ReqIds :
    (Done(r) /\ IsBatch(input[r]) /\ Len(input[r].files) >= 1) =>
      /\ Answered(r)
      /\ Has(Body(r), "results")
      /\ Len(Body(r).results) = Len(input[r].files)
      /\ \A i \in 1..Len(input[r].files) :
           Body(r).results[i].name = input[r].files[i].name

\* three files with different first and last names, the middle one failing
C2_Witness ==
  /\ Done(1) /\ IsBatch(input[1]) /\ Len(input[1].files) = 3
  /\ input[1].files[1].name # input[1].files[3].name
  /\ ItemFails(input[1], input[1].files[2])
  /\ Len(Body(1).results) = 3

\* C3: in a batch or per letter loop every entry written so far is a function
\* of its own item alone: an item whose pipeline fails has an entry with an
\* error field in its own slot, an item whose pipeline succeeds has the entry of
\* its own decomposition, and the response holds an entry for every item
C3_FailureIsolated ==
  \A r \in ReqIds :
    IsLoop(ver, input[r]) =>
      LET items == Items(ver, input[r])
          rs == IF Done(r) /\ ~Invalid(input[r]) THEN Body(r).results ELSE results[r]
      IN /\ Len(rs) <= Len(items)
         /\ (Done(r) /\ ~Invalid(input[r])) => Len(rs) = Len(items)
         /\ \A i \in 1..Len(rs) :
              /\ Tag(input[r], rs[i]) = TagOf(input[r], items[i])
              /\ ItemFails(input[r], items[i]) <=> Has(rs[i], "error")
              /\ ~ItemFails(input[r], items[i]) =>
                   /\ rs[i].paths = ItemPaths(input[r], items[i])
                   /\ rs[i].viewBox = extractViewBox(TracedSvg(input[r], items[i]))

\* a batch of three whose second file does not decode: three entries, the
\* second with an error, the first and third with paths
C3_Witness ==
  /\ Done(1) /\ IsBatch(input[1]) /\ Len(input[1].files) = 3
  /\ ~input[1].files[2].decodes
  /\ Len(Body(1).results) = 3
  /\ Has(Body(1).results[2], "error")
  /\ ~Has(Body(1).results[1], "error") /\ Body(1).results[1].paths # <<>>
  /\ ~Has(Body(1).results[3], "error") /\ Body(1).results[3].paths # <<>>

\* the single conversion ran to its decomposition, which gave no PathRecord
DecomposedToNothing(r) ==
  /\ ~Invalid(input[r])
  /\ ~ItemFails(input[r], Items(ver, input[r])[1])
  /\ ItemPaths(input[r], Items(ver, input[r])[1]) = <<>>

\* C6: a single conversion whose decomposition gives zero PathRecords is
\* answered with an error, and a success response of a single conversion
\* carries a non-empty paths list
C6_SingleEmptyIsError ==
  \A r \in ReqIds :
    (Done(r) /\ ~IsLoop(ver, input[r])) =>
      /\ Answered(r)
      /\ DecomposedToNothing(r) => (Status(r) = 500 /\ Has(Body(r), "error"))
      /\ Status(r) = 200 =>
           (~Has(Body(r), "error") /\ Has(Body(r), "paths") /\ Body(r).paths # <<>>)

\* a blank image on a single conversion: answered 500 after the tracer ran
C6_Witness ==
  /\ Done(1) /\ ~IsLoop(ver, input[1]) /\ DecomposedToNothing(1)
  /\ Status(1) = 500
  /\ \E k \in 1..Len(calls[1]) : calls[1][k].op = "trace"

\* C7: in a batch or per letter loop an item whose decomposition gives zero
\* PathRecords is recorded with an error field: no entry has an empty paths
\* list and no error
C7_LoopEmptyIsError ==
  \A r \in ReqIds :
    IsLoop(ver, input[r]) =>
      \A i \in 1..Len(results[r]) :
        (Has(results[r][i], "paths") /\ results[r][i].paths = <<>>) =>
          Has(results[r][i], "error")

\* the characters of a text: a surrogate pair is one character
Characters(t) ==
  LET second(i) == i > 1 /\ t[i] = "Lo" /\ t[i - 1] = "Hi"
      starts == SelectSeq([i \in 1..Len(t) |-> i], LAMBDA i : ~second(i))
  IN MapSeq(starts, LAMBDA i : IF i < Len(t) /\ second(i + 1)
                                 THEN <<t[i], t[i + 1]>> ELSE <<t[i]>>)

NonSpaceCharacters(t) == SelectSeq(Characters(t), LAMBDA c : c # <<" ">>)

\* a text conversion with a text and mode = individual has been answered
IndividualAsked(r) ==
  /\ Done(r) /\ IsText(input[r])
  /\ ~NoText(input[r].body)
  /\ input[r].body.mode = "individual"

\* C8: mode = individual is answered with a results list of one
\* entry per non-white-space character of the trimmed, truncated text, in text
\* order, entry i tagged with character i
C8_OnePerCharacter ==
  \A r \in ReqIds :
    IndividualAsked(r) =>
      LET chars == NonSpaceCharacters(cleanText(ver, input[r].body))
      IN /\ Answered(r)
         /\ Has(Body(r), "results")
         /\ Len(Body(r).results) = Len(chars)
         /\ \A i \in 1..Len(chars) : <<Body(r).results[i].letter>> = chars[i]

\* the text is missing, empty or white space only
BlankText(body) == ~body.hasText \/ \A i \in 1..Len(body.text) : body.text[i] = " "

\* C9: a text conversion with a missing, empty or white-space-only text makes
\* no collaborator call (render, trim, normalize, trace) and is answered with
\* the validation error
C9_BlankTextRejected ==
  \A r \in ReqIds :
    (IsText(input[r]) /\ BlankText(input[r].body)) =>
      /\ calls[r] = <<>>
      /\ pc[r] \in {"handler", "done"}
      /\ Done(r) =>
           /\ Answered(r)
           /\ Status(r) = 400
           /\ Body(r) = [error |-> "No text provided"]

\* a text of spaces only, answered 400
C9_Witness ==
  /\ Done(1) /\ IsText(input[1])
  /\ input[1].body.hasText /\ input[1].body.text = <<" ", " ">>
  /\ Status(1) = 400

\* C10: a batch or per letter request is answered with a top-level error only
\* when the whole request is invalid (no files, no text); when an item fails the
\* answer is still the results list
C10_NoItemErrorAtTop ==
  \A r \in ReqIds :
    (Done(r) /\ (IsBatch(input[r]) \/ isIndividual(ver, input[r]))) =>
      /\ Answered(r)
      /\ (Has(Body(r), "error") \/ Status(r) # 200) <=>
           (IF IsText(input[r]) THEN BlankText(input[r].body)
            ELSE input[r].files = <<>>)
      /\ ~Has(Body(r), "error") => Has(Body(r), "results")

\* every item of the loop failed and the answer is the results list
C10_Witness ==
  /\ Done(1) /\ IsLoop(ver, input[1]) /\ ~Invalid(input[1])
  /\ \A i \in 1..Len(Items(ver, input[1])) :
       ItemFails(input[1], Items(ver, input[1])[i])
  /\ Status(1) = 200 /\ Has(Body(1), "results")

-----------------------------------------------------------------------------
(* Single conversions, stage by stage (Spec).                              *)

\* request r is a single conversion that has reached its handler
IsSingle(r) == pc[r] # "idle" /\ ~IsLoop(ver, input[r])

\* the operations of the single conversion's pipeline, in order
SinglePlan(r) == Plan(ver, input[r], Items(ver, input[r])[1])

\* the first operation of the pipeline that fails on the input (0: none)
FirstFailing(r) ==
  LET item == Items(ver, input[r])[1]
      bad == {k \in 1..Len(SinglePlan(r)) : ~StageSucceeds(input[r], item, SinglePlan(r)[k])}
  IN IF bad = {} THEN 0 ELSE CHOOSE k \in bad : \A j \in bad : k <= j

\* the handler is about to start, or awaits the operation it called last:
\* Start, or one of StageOk and StageFail, can take the next step
Pending(r) ==
  \/ pc[r] = "handler" /\ calls[r] = <<>>
  \/ /\ pc[r] \in Stages
     /\ calls[r] # <<>>
     /\ calls[r][Len(calls[r])].op = pc[r]

\* C11: a single conversion is answered exactly once, with a {paths, viewBox}
\* result or with one error; the first failing stage (validation, decode,
\* trace, empty result) ends the request with its error, no later stage is
\* called, and a request that is not answered yet is at the head of its
\* handler or awaits the operation it called last
C11_OneResponseFirstError ==
  \A r \in ReqIds :
    IsSingle(r) =>
      /\ Len(resp[r]) = (IF Done(r) THEN 1 ELSE 0)
      /\ ~Done(r) => Pending(r)
      /\ Invalid(input[r]) =>
           /\ calls[r] = <<>>
           /\ Done(r) => (Status(r) = 400 /\ DOMAIN Body(r) = {"error"})
      /\ ~Invalid(input[r]) =>
           LET plan == SinglePlan(r)
               f == FirstFailing(r)
               last == IF f = 0 THEN Len(plan) ELSE f
           IN /\ Len(calls[r]) <= last
              /\ \A k \in 1..Len(calls[r]) : calls[r][k].op = plan[k]
              /\ Done(r) =>
                   /\ Len(calls[r]) = last
                   /\ f # 0 => (Status(r) = 500 /\ Body(r) = [error |-> ErrorText(plan[f])])
                   /\ (f = 0 /\ DecomposedToNothing(r)) =>
                        (Status(r) = 500 /\ DOMAIN Body(r) = {"error"})
                   /\ (f = 0 /\ ~DecomposedToNothing(r)) =>
                        /\ Status(r) = 200
                        /\ {"paths", "viewBox"} \subseteq DOMAIN Body(r)
                        /\ ~Has(Body(r), "error")
                        /\ Body(r).paths = ItemPaths(input[r], Items(ver, input[r])[1])

\* the tracer rejects the raster after the image library ran: one 500 answer
\* with the tracer's error, and the trace call is the last call
C11_Witness ==
  /\ IsSingle(1) /\ Done(1) /\ ~Invalid(input[1])
  /\ FirstFailing(1) = Len(SinglePlan(1)) /\ Len(SinglePlan(1)) >= 3
  /\ Len(resp[1]) = 1 /\ Status(1) = 500
  /\ calls[1][Len(calls[1])].op = "trace"

-----------------------------------------------------------------------------
(* The same single conversion twice (SpecTwice): the answer of one single  *)
(* conversion is kept in first, any requests follow, and a later run of    *)
(* the kept request is compared with it.                                   *)

TextsTwice ==
  {<<>>, <<" ">>, <<"A">>, <<"O">>, <<"Zw">>, <<"Ctl">>, <<"A", "O">>, <<"Hi", "Lo">>}

RequestsTwice(v) ==
  {Request(e, <<f>>, NoBody) : e \in SingleFileEndpoints(v), f \in SingleFiles}
  \cup {Request("/vectorize-batch", <<f>>, NoBody) : f \in BatchFiles}
  \cup (IF HasTextEndpoint(v)
        THEN {Request("/text-to-frame", <<>>, [hasText |-> TRUE, text |-> t, mode |-> m]) :
                t \in TextsTwice, m \in TextModes}
        ELSE {})

ArriveTwice(r) ==
  /\ pc[r] = "idle"
  /\ \E req \in RequestsTwice(ver) : input' = [input EXCEPT ![r] = req]
  /\ pc' = [pc EXCEPT ![r] = "handler"]
  /\ UNCHANGED <<ver, idx, results, calls, resp, arg, ret, first, panelVars>>

\* the answer of a single conversion is kept, and the request is over
Keep(r) ==
  /\ pc[r] = "done"
  /\ ~IsLoop(ver, input[r])
  /\ ~first.kept
  /\ first' = [kept |-> TRUE, req |-> input[r],
               status |-> resp[r][1].status, body |-> resp[r][1].body]
  /\ pc' = [pc EXCEPT ![r] = "idle"]
  /\ input' = [input EXCEPT ![r] = NoRequest]
  /\ idx' = [idx EXCEPT ![r] = 0]
  /\ results' = [results EXCEPT ![r] = <<>>]
  /\ calls' = [calls EXCEPT ![r] = <<>>]
  /\ resp' = [resp EXCEPT ![r] = <<>>]
  /\ UNCHANGED <<ver, arg, ret, panelVars>>

NextTwice ==
  \/ ArriveTwice(1)
  \/ Start(1)
  \/ StageOk(1)
  \/ StageFail(1)
  \/ Reset(1)
  \/ Keep(1)

SpecTwice == Init /\ [][NextTwice]_vars

\* the kept request has been run again and answered
RanAgain(r) == first.kept /\ Done(r) /\ input[r] = first.req

-----------------------------------------------------------------------------
(* Decomposition mode of glyphs and shapes (Spec).                         *)

IsTextOrShape(req) == IsText(req) \/ req.endpoint = "/shape-to-frame"

\* the compound decomposition of a document: every path-data string, trimmed,
\* as one record (the empty ones left out)
CompoundRecords(svg) ==
  SelectSeq([i \in 1..Len(PathMatches(svg)) |-> trim(PathMatches(svg)[i])],
            LAMBDA d : d # <<>>)

\* C13: a text conversion (combined, or an entry of the per letter loop) and
\* a shape upload return every traced path-data string as one PathRecord,
\* never split at an inner M or m
C13_GlyphsAndShapesCompound ==
  \A r \in ReqIds :
    (Done(r) /\ IsTextOrShape(input[r]) /\ ~Invalid(input[r])) =>
      LET items == Items(ver, input[r])
      IN IF IsLoop(ver, input[r])
         THEN \A i \in 1..Len(Body(r).results) :
                ~Has(Body(r).results[i], "error") =>
                  Body(r).results[i].paths = CompoundRecords(TracedSvg(input[r], items[i]))
         ELSE Status(r) = 200 =>
                Body(r).paths = CompoundRecords(TracedSvg(input[r], items[1]))

-----------------------------------------------------------------------------
(* Truncation of the text (Spec).                                          *)

\* the text handed to the rasterizer by the k-th call of request r
Rendered(r, k) == Items(ver, input[r])[calls[r][k].item]

\* the first n characters of the trimmed text
FirstOfTrimmed(body, n) ==
  SubSeq(trim(body.text), 1, IF Len(trim(body.text)) < n THEN Len(trim(body.text)) ELSE n)

\* C14: what a text conversion renders is taken from the first 50 characters
\* of the trimmed text: the whole of them in combined mode, one of their
\* non-white-space characters per call in the per letter loop; never more than
\* 50 characters reach the rasterizer
C14_TruncatedTo50 ==
  \A r \in ReqIds :
    (IsText(input[r]) /\ pc[r] # "idle") =>
      \A k \in 1..Len(calls[r]) :
        calls[r][k].op = "render" =>
          /\ Len(Rendered(r, k)) <= 50
          /\ IF IsLoop(ver, input[r])
             THEN /\ Len(Rendered(r, k)) = 1
                  /\ \E j \in 1..Len(FirstOfTrimmed(input[r].body, 50)) :
                       FirstOfTrimmed(input[r].body, 50)[j] = Rendered(r, k)[1]
             ELSE Rendered(r, k) = FirstOfTrimmed(input[r].body, 50)

-----------------------------------------------------------------------------
(* The records of flatten mode, and the cap (SpecDecompose).               *)

IsFlatten(fn) == fn \in {"extractPaths", "extractPathsSingleMove"}

\* C15: every PathRecord of a flatten decomposition ends with a close command
\* (Z or z)
C15_FlattenRecordsClosed ==
  (Called /\ IsFlatten(ret.fn)) =>
    \A i \in 1..Len(ret.out.paths) :
      LET p == ret.out.paths[i]
      IN p # <<>> /\ IsClose(p[Len(p)])

\* C16: every PathRecord of a flatten decomposition is a non-empty string
\* without white space around it that begins with M or m
C16_FlattenRecordsStartWithMove ==
  (Called /\ IsFlatten(ret.fn)) =>
    \A i \in 1..Len(ret.out.paths) :
      LET p == ret.out.paths[i]
      IN p # <<>> /\ trim(p) = p /\ IsMove(p[1])

\* the decomposition without a cap: the records of every path-data string in
\* document order
Uncapped(fn, svg) ==
  CASE fn = "extractPaths" ->
         Flatten([i \in 1..Len(PathMatches(svg)) |-> extractSubpaths(PathMatches(svg)[i])])
    [] fn = "extractPathsSingleMove" ->
         Flatten([i \in 1..Len(PathMatches(svg)) |->
                    splitToSingleMovePaths(trim(PathMatches(svg)[i]))])
    [] OTHER -> CompoundRecords(svg)

Min(a, b) == IF a < b THEN a ELSE b

\* C17: the result is the first min(limit, total) records of the uncapped
\* decomposition, in document order
C17_FirstCapRecords ==
  Called =>
    LET full == Uncapped(ret.fn, arg)
    IN ret.out.paths = SubSeq(full, 1, Min(ret.limit, Len(full)))

\* the limit is reached inside a path-data string of three fragments: the
\* rest of that string and the strings after it are left out
C17_Witness ==
  /\ Called /\ IsFlatten(ret.fn)
  /\ arg.paths # <<>> /\ arg.paths[1] = Ring \o Contour
  /\ Len(Uncapped(ret.fn, arg)) > ret.limit + 3
  /\ ret.limit % 3 # 0
  /\ Len(ret.out.paths) = ret.limit

-----------------------------------------------------------------------------
(* Thresholds (Spec).                                                      *)

\* the sharp pipelines that end in .threshold(n)
Binarizes(op) == op \in {"normalize", "alpha", "invert"}

\* the position of the call that binarized the raster traced by call k: the
\* last binarizing call before k for the same item
BinarizedAt(r, k) ==
  LET before == {j \in 1..(k - 1) :
                   calls[r][j].item = calls[r][k].item /\ Binarizes(calls[r][j].op)}
  IN CHOOSE j \in before : \A i \in before : i <= j

\* C18: the threshold handed to the tracer is the threshold at which the
\* raster it traces was binarized, on every endpoint
C18_TraceThresholdMatches ==
  \A r \in ReqIds :
    \A k \in 1..Len(calls[r]) :
      calls[r][k].op = "trace" =>
        /\ \E j \in 1..(k - 1) :
             calls[r][j].item = calls[r][k].item /\ Binarizes(calls[r][j].op)
        /\ calls[r][k].threshold = calls[r][BinarizedAt(r, k)].threshold

-----------------------------------------------------------------------------
(* The rasters of /remove-bg, pixel by pixel (SpecPixels).  An image is a  *)
(* sequence of pixels; a pixel has a luminance (what grayscale() gives)    *)
(* and, in an image with an alpha channel, an alpha value.  The sharp      *)
(* operations are what sharp documents them to be.                         *)

\* threshold(t): a value at or above t becomes 255, a value below it 0
threshold(v, t) == IF v >= t THEN 255 ELSE 0

\* negate()
negate(v) == 255 - v

\* normalise(): the luminance is stretched to the whole range 0..255 (an image
\* of one shade is left as it is)
normalise(lums) ==
  LET lo == CHOOSE v \in {lums[i] : i \in 1..Len(lums)} : \A i \in 1..Len(lums) : v <= lums[i]
      hi == CHOOSE v \in {lums[i] : i \in 1..Len(lums)} : \A i \in 1..Len(lums) : v >= lums[i]
  IN IF hi = lo THEN lums
     ELSE [i \in 1..Len(lums) |-> ((lums[i] - lo) * 255) \div (hi - lo)]

\* grayscale()
grayscale(img) == [i \in 1..Len(img.pixels) |-> img.pixels[i].lum]

\* sharp(buffer).ensureAlpha().extractChannel(3).threshold(128)
binarizeAlpha(img) ==
  [i \in 1..Len(img.pixels) |-> threshold(img.pixels[i].alpha, 128)]

\* the tail of the other pipeline: .threshold(200).negate()
thresholdNegate(raster) ==
  [i \in 1..Len(raster) |-> negate(threshold(raster[i], 200))]

\* sharp(buffer).grayscale().normalise().threshold(200).negate()
binarizeInverted(img) == thresholdNegate(normalise(grayscale(img)))

\* the tracer's rule: a pixel below the threshold is foreground
IsForeground(v, t) == v < t

LumValues == {0, 100, 199, 200, 255}

AlphaValues == {0, 127, 128, 255}

Images ==
  UNION {{[hasAlpha |-> TRUE, pixels |-> px] :
            px \in [1..n -> [lum : LumValues, alpha : AlphaValues]]}
         \cup {[hasAlpha |-> FALSE, pixels |-> px] : px \in [1..n -> [lum : LumValues]]} :
         n \in 1..MaxPixels}

InitPixels ==
  /\ ver = "server"
  /\ ServerIdle
  /\ PanelClosed
  /\ arg \in Images
  /\ ret = NoRet

\* if (metadata.hasAlpha) { processed = await sharp(...)...threshold(128)... }
BinarizeAlpha ==
  /\ ret = NoRet
  /\ arg.hasAlpha
  /\ ret' = [fn |-> "alpha", raster |-> binarizeAlpha(arg)]
  /\ UNCHANGED <<arg, serverVars, panelVars>>

\* else { processed = await sharp(...)...threshold(200).negate()... }
BinarizeInverted ==
  /\ ret = NoRet
  /\ ~arg.hasAlpha
  /\ ret' = [fn |-> "invert", raster |-> binarizeInverted(arg)]
  /\ UNCHANGED <<arg, serverVars, panelVars>>

\* traceSvg(processed, { threshold: 128, turdSize: 15 })
TraceRaster ==
  /\ ret.fn \in {"alpha", "invert"}
  /\ ret' = [fn |-> "trace", via |-> ret.fn, raster |-> ret.raster,
             threshold |-> TraceThreshold(ver, Request("/remove-bg", <<>>, NoBody)),
             foreground |-> [i \in 1..Len(ret.raster) |->
                               IsForeground(ret.raster[i],
                                 TraceThreshold(ver, Request("/remove-bg", <<>>, NoBody)))]]
  /\ UNCHANGED <<arg, serverVars, panelVars>>

NextPixels ==
  \/ BinarizeAlpha
  \/ BinarizeInverted
  \/ TraceRaster

SpecPixels == InitPixels /\ [][NextPixels]_vars

Traced(via) == ret.fn = "trace" /\ ret.via = via

\* C19: on an image with an alpha channel a pixel is foreground for the
\* tracer if and only if it is opaque (alpha at or above 128)
C19_OpaqueIsForeground ==
  Traced("alpha") =>
    \A i \in 1..Len(arg.pixels) :
      ret.foreground[i] <=> arg.pixels[i].alpha >= 128

\* C20: on an image without an alpha channel the foreground pixels of the
\* tracer are exactly the dark ones (normalized luminance below 200)
C20_DarkIsForeground ==
  Traced("invert") =>
    \A i \in 1..Len(arg.pixels) :
      ret.foreground[i] <=> normalise(grayscale(arg))[i] < 200

-----------------------------------------------------------------------------
(* The raster of processImage, pixel by pixel (SpecNormalize).             *)

\* the alpha of a pixel after ensureAlpha(): opaque where there is no channel
alphaOf(img, i) == IF img.hasAlpha THEN img.pixels[i].alpha ELSE 255

\* variant: the transparency is dropped without a background (removeAlpha())
flattenLeftOut(img) == [i \in 1..Len(img.pixels) |-> img.pixels[i].lum]

\* ensureAlpha().flatten({ background: white }): the pixel over white
flatten(img) ==
  [i \in 1..Len(img.pixels) |->
     (img.pixels[i].lum * alphaOf(img, i) + 255 * (255 - alphaOf(img, i))) \div 255]

\* ...flatten(...).resize(...).grayscale().normalise().threshold(t)
binarizeFlattened(img, t) ==
  LET n == normalise(flatten(img))
  IN [i \in 1..Len(n) |-> threshold(n[i], t)]

\* opts.threshold || 160: 160 by default, 128 for text, 140 for shapes
ProfileThresholds == {128, 140, 160}

\* const pre = await sharp(buffer)...threshold(opts.threshold || 160)...
BinarizeFlattened ==
  /\ ret = NoRet
  /\ \E t \in ProfileThresholds :
       ret' = [fn |-> "normalize", raster |-> binarizeFlattened(arg, t), threshold |-> t]
  /\ UNCHANGED <<arg, serverVars, panelVars>>

\* const svg = await traceSvg(pre, opts): the same opts.threshold || 160
TraceFlattened ==
  /\ ret.fn = "normalize"
  /\ ret' = [fn |-> "trace", via |-> "normalize", raster |-> ret.raster,
             threshold |-> ret.threshold,
             foreground |-> [i \in 1..Len(ret.raster) |->
                               IsForeground(ret.raster[i], ret.threshold)]]
  /\ UNCHANGED <<arg, serverVars, panelVars>>

NextNormalize ==
  \/ BinarizeFlattened
  \/ TraceFlattened

SpecNormalize == InitPixels /\ [][NextNormalize]_vars

\* C21: in processImage a fully transparent pixel is white after flatten and
\* background for the tracer at the thresholds 128, 140 and 160, whatever its
\* colour
C21_TransparentIsBackground ==
  (ret.fn \in {"normalize", "trace"} /\ arg.hasAlpha) =>
    \A i \in 1..Len(arg.pixels) :
      arg.pixels[i].alpha = 0 =>
        /\ flatten(arg)[i] = 255
        /\ ret.raster[i] = 255
        /\ Traced("normalize") => ~ret.foreground[i]

\* a transparent black pixel beside an opaque black one: the opaque one is
\* traced, the transparent one is not
C21_Witness ==
  /\ Traced("normalize") /\ arg.hasAlpha /\ Len(arg.pixels) = 2
  /\ arg.pixels[1] = [lum |-> 0, alpha |-> 0]
  /\ arg.pixels[2] = [lum |-> 0, alpha |-> 255]
  /\ ~ret.foreground[1] /\ ret.foreground[2]

-----------------------------------------------------------------------------
(* Order of the stages (Spec).                                             *)

\* the pipeline of item i of request r
PlanOf(r, i) == Plan(ver, input[r], Items(ver, input[r])[i])

\* call k of request r was the last of its item's pipeline: the trace, or an
\* operation that failed
EndsPipeline(r, k) ==
  \/ calls[r][k].op = "trace"
  \/ ~StageSucceeds(input[r], Items(ver, input[r])[calls[r][k].item], calls[r][k].op)

\* the position of call k in the pipeline of its item
StepOf(r, k) ==
  CHOOSE j \in 1..Len(PlanOf(r, calls[r][k].item)) :
    PlanOf(r, calls[r][k].item)[j] = calls[r][k].op

\* C22: the calls of a job are made one after another: a call follows the
\* completed call before it in the pipeline of the same item, the trace comes
\* after the binarization of its item, the first call of item i+1 follows the
\* end (trace or failure) of item i, whose entry is written by then, and the
\* only call in flight is the last one
C22_StagesInSequence ==
  \A r \in ReqIds :
    (pc[r] # "idle" /\ ~Invalid(input[r])) =>
      /\ calls[r] # <<>> =>
           /\ calls[r][1].item = 1
           /\ calls[r][1].op = PlanOf(r, 1)[1]
      /\ \A k \in 1..(Len(calls[r]) - 1) :
           IF EndsPipeline(r, k)
           THEN /\ IsLoop(ver, input[r])
                /\ calls[r][k + 1].item = calls[r][k].item + 1
                /\ calls[r][k + 1].op = PlanOf(r, calls[r][k + 1].item)[1]
           ELSE /\ calls[r][k + 1].item = calls[r][k].item
                /\ StepOf(r, k + 1) = StepOf(r, k) + 1
      /\ \A k \in 1..Len(calls[r]) :
           calls[r][k].op = "trace" =>
             \E j \in 1..(k - 1) :
               calls[r][j].item = calls[r][k].item /\ Binarizes(calls[r][j].op)
      /\ pc[r] \in Stages =>
           /\ calls[r] # <<>>
           /\ calls[r][Len(calls[r])].op = pc[r]
           /\ calls[r][Len(calls[r])].item = idx[r]
           /\ IsLoop(ver, input[r]) => Len(results[r]) = idx[r] - 1
      /\ Cardinality({k \in 1..Len(calls[r]) : calls[r][k].op = "trace"})
           <= Len(Items(ver, input[r]))

\* a batch of three files: the third trace is in flight, two entries are
\* written, and the log holds the three pipelines one after another
C22_Witness ==
  /\ IsBatch(input[1]) /\ Len(input[1].files) = 3
  /\ pc[1] = "trace" /\ idx[1] = 3
  /\ Len(results[1]) = 2
  /\ Len(calls[1]) = 9

-----------------------------------------------------------------------------
(* Two requests served at once (SpecConcurrent): the steps of the two      *)
(* handlers interleave at every await.                                     *)

BadFile == File("a.png", FALSE, FALSE, FALSE, BlankSvg)

BlankFile == File("b.png", TRUE, FALSE, TRUE, BlankSvg)

ContourFile == File("a.png", TRUE, FALSE, TRUE, ContourSvg)

RingFile == File("b.png", TRUE, TRUE, TRUE, RingSvg)

RequestsConcurrent(v) ==
  {Request("/vectorize", <<f>>, NoBody) : f \in {BadFile, BlankFile, ContourFile, RingFile}}
  \cup {Request("/remove-bg", <<RingFile>>, NoBody), Request("/vectorize", <<>>, NoBody)}
  \cup {Request("/vectorize-batch", fs, NoBody) :
          fs \in {<<ContourFile, RingFile>>, <<BadFile, ContourFile>>, <<RingFile, BlankFile>>}}
  \cup (IF HasTextEndpoint(v)
        THEN {Request("/text-to-frame", <<>>, [hasText |-> TRUE, text |-> t, mode |-> m]) :
                t \in {<<"A">>, <<"O", "A">>, <<"Ctl">>}, m \in {"absent", "individual"}}
        ELSE {})

ArriveConcurrent(r) ==
  /\ pc[r] = "idle"
  /\ \E req \in RequestsConcurrent(ver) : input' = [input EXCEPT ![r] = req]
  /\ pc' = [pc EXCEPT ![r] = "handler"]
  /\ UNCHANGED <<ver, idx, results, calls, resp, arg, ret, first, panelVars>>

NextConcurrent ==
  \E r \in ReqIds :
    \/ ArriveConcurrent(r)
    \/ Start(r)
    \/ StageOk(r)
    \/ StageFail(r)
    \/ Reset(r)

SpecConcurrent == Init /\ [][NextConcurrent]_vars

\* the first operation of the item's pipeline that fails
FirstFailingOp(req, item) ==
  LET plan == Plan(ver, req, item)
      bad == {k \in 1..Len(plan) : ~StageSucceeds(req, item, plan[k])}
  IN plan[CHOOSE k \in bad : \A j \in bad : k <= j]

\* the entry of an item of a loop, from the item alone
EntryAlone(req, item) ==
  IF ItemFails(req, item) THEN FailEntry(req, item, ErrorText(FirstFailingOp(req, item)))
  ELSE SuccessEntry(req, item, Decompose(ver, TracedSvg(req, item)))

\* the answer to a request that is served alone, from the request alone
AnswerAlone(req) ==
  LET items == Items(ver, req)
  IN IF Invalid(req)
     THEN [status |-> 400, body |-> [error |-> ValidationMessage(ver, req)]]
     ELSE IF IsLoop(ver, req)
     THEN [status |-> 200,
           body |-> LoopBody(req, [i \in 1..Len(items) |-> EntryAlone(req, items[i])])]
     ELSE IF ItemFails(req, items[1])
     THEN [status |-> 500, body |-> [error |-> ErrorText(FirstFailingOp(req, items[1]))]]
     ELSE IF Decompose(ver, TracedSvg(req, items[1])).paths = <<>>
     THEN [status |-> 500, body |-> [error |-> EmptyMessage(ver, req)]]
     ELSE [status |-> 200,
           body |-> SingleBody(ver, req, Decompose(ver, TracedSvg(req, items[1])))]

\* C23: with two requests served at once and their steps interleaved in any
\* order, each request is answered once, with the answer its own input gets
\* when it is served alone, and the entries written so far for it are those of
\* its own items
C23_AnswerFromOwnInput ==
  \A r \in ReqIds :
    /\ Done(r) =>
         /\ Len(resp[r]) = 1
         /\ resp[r][1] = AnswerAlone(input[r])
    /\ (pc[r] \in Stages /\ IsLoop(ver, input[r])) =>
         \A i \in 1..Len(results[r]) :
           results[r][i] = EntryAlone(input[r], Items(ver, input[r])[i])

\* two batches in progress at once, each with an entry written, and request 2
\* answered while request 1 still awaits its tracer
C23_Witness ==
  /\ IsBatch(input[1]) /\ IsBatch(input[2]) /\ input[1] # input[2]
  /\ pc[1] = "trace" /\ Len(results[1]) = 1
  /\ Done(2) /\ Len(Body(2).results) = 2

-----------------------------------------------------------------------------
(* The design panel (src/src/index.tsx).                                   *)
(*                                                                         *)
(* A handler runs from a click to its first await in one step, and from    *)
(* the settling of an await to the next await or to its end in one step.   *)
(* The tab bar, the confetti, the progress bar and the                     *)
(* preview URL are not followed; savedFrames is the copy of the stored     *)
(* library the panel shows and is read from storage.  The status messages  *)
(* are "busy", "done", "error" and "locked" (the upgrade messages).  The   *)
(* handlers read Date.now() at most once a millisecond here; equal         *)
(* readings and the random suffix of the ids are followed in SpecLibrary.  *)

FREE_SHAPES == {"square", "circle", "rounded", "heart"}

PRO_SHAPES == {"star", "hexagon", "diamond", "arch", "cross", "oval"}

\* the presets the user clicks: a free shape and a Pro shape
PresetSamples == {"circle", "star"}

FREE_DAILY_LIMIT == 5

\* if (frames.length > 50) frames.length = 50
LibraryCap == 50

FrameEffects == {"none", "shadow", "glow", "outline", "double"}

\* the addElementAtPoint calls of addFrameWithEffect before the drop target
LayersOf(effect) ==
  CASE effect = "double" -> 2
    [] effect \in {"outline", "glow", "shadow"} -> 1
    [] OTHER -> 0

\* useState<Tab>("frames"), useState<Tab>("quick")
FirstTab(p) == IF p = "tiers" THEN "frames" ELSE "quick"

\* the PNG files the user picks
PanelFiles == {"a.png", "b.png"}

\* Math.random().toString(36).slice(2, 6)
Suffixes == {"k3x9", "p0qz"}

HasTiers == panel = "tiers"

getTodayUsage(st) == st.usage

incrementUsage(st) == [st EXCEPT !.usage = @ + 1]

canUseFreeConvert == IF isPro THEN TRUE ELSE dailyUsage < FREE_DAILY_LIMIT

getSavedFrames(st) == st.library

\* variant: the new frame is put at the end of the list
saveFrameAtEnd(frames, name, t, rnd) ==
  LET all == Append(frames, [id |-> <<t, rnd>>, name |-> name, timestamp |-> t])
  IN IF Len(all) > LibraryCap THEN SubSeq(all, 1, LibraryCap) ELSE all

\* frames.unshift({ ...f, id, timestamp }); if (frames.length > 50) frames.length = 50
saveFrame(frames, name, t, rnd) ==
  LET all == <<[id |-> <<t, rnd>>, name |-> name, timestamp |-> t]>> \o frames
  IN IF Len(all) > LibraryCap THEN SubSeq(all, 1, LibraryCap) ELSE all

IdIsNot(id, f) == f.id # id

deleteFrame(frames, id) ==
  LET keep(f) == IdIsNot(id, f) IN SelectSeq(frames, keep)

\* the handlers whose finally block is setIsConverting(false)
Converters ==
  {"onConvertToFrame", "onBatchConvert", "onConvertTextToFrame", "onConvertShapeToFrame",
   "onAddWithEffect"}

\* the handlers that call saveFrame after addFrameFromPaths
Savers ==
  {"onConvertToFrame", "onBatchConvert", "onConvertTextToFrame", "onConvertShapeToFrame"}

\* the handlers that call incrementUsage after addFrameFromPaths
Counters == {"onAddPreset", "onConvertToFrame"}

Free == {c \in CallIds : running[c].fn = "none"}

NewCall == CHOOSE c \in Free : \A d \in Free : c <= d

\* the backend's answers: the fetch rejects, or the JSON has an error, n
\* paths, or n entries with paths in results
Answers ==
  {[kind |-> "rejected", n |-> 0], [kind |-> "error", n |-> 0]}
  \cup {[kind |-> "paths", n |-> n] : n \in 0..1}
  \cup {[kind |-> "results", n |-> n] : n \in 0..MaxResults}

\* { setStatus("... upgrade ..."); setActiveTab("pro"); return; }
Upgrade ==
  /\ status' = "locked"
  /\ activeTab' = "pro"
  /\ UNCHANGED <<panel, isPro, isConverting, selectedFile, dailyUsage, storage, now,
                 design, running, timers>>

\* the handler has reached its first await
Begin(call) ==
  /\ Free # {}
  /\ running' = [running EXCEPT ![NewCall] = call]

\* catch (e) { setStatus(...) } finally { setIsConverting(false) }
Caught(c) ==
  /\ running' = [running EXCEPT ![c].pc = "returned"]
  /\ status' = "error"
  /\ isConverting' = IF running[c].fn \in Converters THEN FALSE ELSE isConverting
  /\ UNCHANGED <<panel, isPro, selectedFile, dailyUsage, activeTab, storage, now, design,
                 timers>>

\* variant: the Pro shapes are not gated
ProShapeLockedNever(preset) == FALSE

ProShapeLocked(preset) == HasTiers /\ preset \in PRO_SHAPES /\ ~isPro

onAddPreset(preset) ==
  /\ IF ProShapeLocked(preset) THEN Upgrade
     ELSE IF HasTiers /\ ~canUseFreeConvert THEN Upgrade
     ELSE /\ Begin([NoCall EXCEPT !.fn = "onAddPreset", !.pc = "add", !.preset = preset])
          /\ status' = "busy"
          /\ UNCHANGED <<panel, isPro, isConverting, selectedFile, dailyUsage, activeTab,
                         storage, now, design, timers>>
  /\ UNCHANGED <<arg, ret, serverVars>>

onAddFromLibrary ==
  /\ getSavedFrames(storage) # <<>>
  /\ Begin([NoCall EXCEPT !.fn = "onAddFromLibrary", !.pc = "add"])
  /\ status' = "busy"
  /\ UNCHANGED <<panel, isPro, isConverting, selectedFile, dailyUsage, activeTab,
                 storage, now, design, timers>>
  /\ UNCHANGED <<arg, ret, serverVars>>

\* () => { deleteFrame(f.id); setSavedFrames(getSavedFrames()); }
onDeleteFrame ==
  /\ \E i \in 1..Len(getSavedFrames(storage)) :
       storage' = [storage EXCEPT !.library = deleteFrame(@, @[i].id)]
  /\ UNCHANGED <<panel, isPro, isConverting, selectedFile, dailyUsage, activeTab, status,
                 now, design, running, timers>>
  /\ UNCHANGED <<arg, ret, serverVars>>

onFileSelect ==
  /\ \E file \in PanelFiles, ok \in BOOLEAN :
       IF ok THEN selectedFile' = file /\ status' = ""
       ELSE status' = "error" /\ UNCHANGED selectedFile
  /\ UNCHANGED <<panel, isPro, isConverting, dailyUsage, activeTab, storage, now, design,
                 running, timers>>
  /\ UNCHANGED <<arg, ret, serverVars>>

\* setSelectedFile(null); setPreviewUrl(""); setStatus(""); setIsConverting(false)
clearFileSelection ==
  /\ selectedFile' = NoFile
  /\ status' = ""
  /\ isConverting' = FALSE

\* the Escape key, the clear button, or a file input left empty
onClear ==
  /\ clearFileSelection
  /\ UNCHANGED <<panel, isPro, dailyUsage, activeTab, storage, now, design, running,
                 timers>>
  /\ UNCHANGED <<arg, ret, serverVars>>

\* setTimeout(clearFileSelection, 2500) is due
ClearTimerFires ==
  /\ timers.clearFileSelection > 0
  /\ timers' = [timers EXCEPT !.clearFileSelection = @ - 1]
  /\ clearFileSelection
  /\ UNCHANGED <<panel, isPro, dailyUsage, activeTab, storage, now, design, running>>
  /\ UNCHANGED <<arg, ret, serverVars>>

\* setTimeout(() => setStatus(""), 3000) is due
StatusTimerFires ==
  /\ timers.setStatus > 0
  /\ timers' = [timers EXCEPT !.setStatus = @ - 1]
  /\ status' = ""
  /\ UNCHANGED <<panel, isPro, isConverting, selectedFile, dailyUsage, activeTab, storage,
                 now, design, running>>
  /\ UNCHANGED <<arg, ret, serverVars>>

\* () => { setIsPro(true); showSuccess("Pro unlocked!"); }
onUnlock ==
  /\ HasTiers
  /\ ~isPro
  /\ isPro' = TRUE
  /\ status' = "done"
  /\ timers' = [timers EXCEPT !.setStatus = @ + 1]
  /\ UNCHANGED <<panel, isConverting, selectedFile, dailyUsage, activeTab, storage, now,
                 design, running>>
  /\ UNCHANGED <<arg, ret, serverVars>>

\* if (... || isConverting) return; and the button's disabled={isConverting}
Busy == isConverting

\* try { setIsConverting(true); setStatus(...); ... await fetch(...)
Convert(fn, mode) ==
  /\ Begin([NoCall EXCEPT !.fn = fn, !.pc = "fetch", !.mode = mode,
                           !.file = IF fn = "onConvertToFrame" THEN selectedFile ELSE NoFile])
  /\ isConverting' = TRUE
  /\ status' = "busy"
  /\ UNCHANGED <<panel, isPro, selectedFile, dailyUsage, activeTab, storage, now, design,
                 timers>>

onConvertToFrame ==
  /\ selectedFile # NoFile
  /\ ~Busy
  /\ IF HasTiers /\ ~canUseFreeConvert THEN Upgrade
     ELSE Convert("onConvertToFrame", "none")
  /\ UNCHANGED <<arg, ret, serverVars>>

\* the buttons of the Pro features are disabled while isPro is false; the
\* handlers check it again
ProOnly(go) ==
  /\ HasTiers => isPro
  /\ IF HasTiers /\ ~isPro THEN Upgrade ELSE go

onBatchConvert ==
  /\ ~Busy
  /\ ProOnly(Convert("onBatchConvert", "none"))
  /\ UNCHANGED <<arg, ret, serverVars>>

onConvertTextToFrame ==
  /\ ~Busy
  /\ \E mode \in {"combined", "individual"} :
       ProOnly(Convert("onConvertTextToFrame", mode))
  /\ UNCHANGED <<arg, ret, serverVars>>

onConvertShapeToFrame ==
  /\ ~Busy
  /\ ProOnly(Convert("onConvertShapeToFrame", "none"))
  /\ UNCHANGED <<arg, ret, serverVars>>

\* disabled={isConverting}; the handler itself does not look at isConverting
onAddWithEffect ==
  /\ ~isConverting
  /\ \E effect \in FrameEffects :
       ProOnly(/\ Begin([NoCall EXCEPT !.fn = "onAddWithEffect", !.pc = "box",
                                       !.effect = effect, !.inner = "running"])
               /\ isConverting' = TRUE
               /\ UNCHANGED <<panel, isPro, selectedFile, dailyUsage, activeTab, status,
                              storage, now, design, timers>>)
  /\ UNCHANGED <<arg, ret, serverVars>>

\* the end of a handler's try block: showSuccess(...) and, after a PNG
\* conversion, setTimeout(clearFileSelection, 2500); then the finally block
Succeeded(c, call) ==
  /\ running' = [running EXCEPT ![c] = [call EXCEPT !.pc = "returned"]]
  /\ status' = "done"
  /\ timers' = [timers EXCEPT
       !.setStatus = @ + 1,
       !.clearFileSelection = IF call.fn = "onConvertToFrame" THEN @ + 1 ELSE @]
  /\ isConverting' = IF call.fn \in Converters THEN FALSE ELSE isConverting

\* await (await fetch(...)).json() settles
FetchSettles(c) ==
  LET call == running[c]
      loops(a) ==
        \/ call.fn = "onBatchConvert"
        \/ call.fn = "onConvertTextToFrame" /\ call.mode = "individual" /\ a.kind = "results"
      throws(a) ==
        \/ a.kind = "rejected"
        \/ call.fn # "onBatchConvert" /\ a.kind = "error"
        \/ ~loops(a) /\ a.n = 0
      count(a) == IF a.kind = "results" THEN a.n ELSE 0
  IN /\ call.pc = "fetch"
     /\ \E a \in Answers :
          IF throws(a) THEN Caught(c)
          ELSE IF loops(a) /\ count(a) = 0
          THEN /\ Succeeded(c, call)
               /\ UNCHANGED <<panel, isPro, selectedFile, dailyUsage, activeTab, storage, now,
                              design>>
          ELSE /\ running' = [running EXCEPT ![c].pc = "add",
                                             ![c].left = IF loops(a) THEN a.n ELSE 0]
               /\ UNCHANGED <<panel, isPro, isConverting, selectedFile, dailyUsage, activeTab,
                              status, storage, now, design, timers>>
     /\ UNCHANGED <<arg, ret, serverVars>>

\* incrementUsage() runs after the element is added, in the tier panel only
IsCounted(fn) == HasTiers /\ fn \in Counters

\* await addFrameFromPaths(...) resolves: the drop target is in the design
AddResolves(c) ==
  LET call == running[c]
      saves == call.fn \in Savers
      after == [call EXCEPT !.frames = @ + 1]
  IN /\ call.pc = "add"
     /\ design' = Append(design, [call |-> c, fill |-> "dropTarget"])
     /\ now' = IF saves THEN now + 1 ELSE now
     /\ storage' =
          LET saved == IF saves
                       THEN [storage EXCEPT !.library = saveFrame(@, call.fn, now', "k3x9")]
                       ELSE storage
          IN IF IsCounted(call.fn) THEN incrementUsage(saved) ELSE saved
     /\ dailyUsage' = IF IsCounted(call.fn) THEN getTodayUsage(storage') ELSE dailyUsage
     /\ IF call.left > 0
        THEN /\ running' = [running EXCEPT ![c] = [after EXCEPT !.pc = "delay"]]
             /\ UNCHANGED <<status, timers, isConverting>>
        ELSE Succeeded(c, after)
     /\ UNCHANGED <<panel, isPro, selectedFile, activeTab>>
     /\ UNCHANGED <<arg, ret, serverVars>>

\* await addFrameFromPaths(...) rejects
AddRejects(c) ==
  /\ running[c].pc = "add"
  /\ Caught(c)
  /\ UNCHANGED <<arg, ret, serverVars>>

\* await delay(...) is over
DelayElapses(c) ==
  LET call == running[c]
  IN /\ call.pc = "delay"
     /\ IF call.fn = "onAddWithEffect"
        THEN /\ running' = [running EXCEPT ![c].pc =
                  IF call.layers < LayersOf(call.effect) THEN "layer" ELSE "frame"]
             /\ UNCHANGED <<status, timers, isConverting>>
        ELSE IF call.left > 1
        THEN /\ running' = [running EXCEPT ![c].pc = "add", ![c].left = @ - 1]
             /\ UNCHANGED <<status, timers, isConverting>>
        ELSE Succeeded(c, [call EXCEPT !.left = 0])
     /\ UNCHANGED <<panel, isPro, selectedFile, dailyUsage, activeTab, storage, now, design>>
     /\ UNCHANGED <<arg, ret, serverVars>>

\* const box = await getPageFitBox() of addFrameWithEffect resolves
BoxResolves(c) ==
  /\ running[c].pc = "box"
  /\ running' = [running EXCEPT ![c].pc =
       IF LayersOf(running[c].effect) > 0 THEN "layer" ELSE "frame"]
  /\ UNCHANGED <<panel, isPro, isConverting, selectedFile, dailyUsage, activeTab, status,
                 storage, now, design, timers>>
  /\ UNCHANGED <<arg, ret, serverVars>>

\* an effect layer is in the design; await delay(250) follows
LayerResolves(c) ==
  /\ running[c].pc = "layer"
  /\ design' = Append(design, [call |-> c, fill |-> "color"])
  /\ running' = [running EXCEPT ![c].pc = "delay", ![c].layers = @ + 1]
  /\ UNCHANGED <<panel, isPro, isConverting, selectedFile, dailyUsage, activeTab, status,
                 storage, now, timers>>
  /\ UNCHANGED <<arg, ret, serverVars>>

\* variant: the catch block of addFrameWithEffect adds nothing
FallbackPcNone == "returned"

\* catch { await addElementAtPoint({ ... dropTarget ... }) }
FallbackPc == "fallback"

\* the drop target of addFrameWithEffect is in the design, the function
\* returns, and onAddWithEffect goes on to showSuccess
FrameResolves(c) ==
  /\ running[c].pc \in {"frame", "fallback"}
  /\ design' = Append(design, [call |-> c, fill |-> "dropTarget"])
  /\ Succeeded(c, [running[c] EXCEPT !.frames = @ + 1, !.inner = "returned"])
  /\ UNCHANGED <<panel, isPro, selectedFile, dailyUsage, activeTab, storage, now>>
  /\ UNCHANGED <<arg, ret, serverVars>>

\* an await of addFrameWithEffect rejects: inside the try block the catch
\* block adds the drop target, elsewhere the function throws to
\* onAddWithEffect
EffectRejects(c) ==
  LET call == running[c]
      next == IF call.pc \in {"layer", "frame"} THEN FallbackPc ELSE "threw"
  IN /\ call.pc \in {"box", "layer", "frame", "fallback"}
     /\ IF next = "fallback"
        THEN /\ running' = [running EXCEPT ![c].pc = "fallback", ![c].caught = TRUE]
             /\ UNCHANGED <<panel, isPro, isConverting, selectedFile, dailyUsage, activeTab,
                            status, storage, now, design, timers>>
        ELSE IF next = "returned"
        THEN /\ Succeeded(c, [call EXCEPT !.inner = "returned", !.caught = TRUE])
             /\ UNCHANGED <<panel, isPro, selectedFile, dailyUsage, activeTab, storage, now,
                            design>>
        ELSE /\ running' = [running EXCEPT ![c].pc = "returned", ![c].inner = "threw"]
             /\ status' = "error"
             /\ isConverting' = FALSE
             /\ UNCHANGED <<panel, isPro, selectedFile, dailyUsage, activeTab, storage, now,
                            design, timers>>
     /\ UNCHANGED <<arg, ret, serverVars>>

\* getTodayUsage() of earlier sessions of the day
StoredUsage == {0, FREE_DAILY_LIMIT - 1}

InitPanel ==
  /\ ver = "server"
  /\ ServerIdle
  /\ arg = NoArg
  /\ ret = NoRet
  /\ panel \in Panels
  /\ isPro = FALSE
  /\ isConverting = FALSE
  /\ selectedFile = NoFile
  /\ storage \in {[usage |-> u, library |-> <<>>] :
                    u \in IF panel = "tiers" THEN StoredUsage ELSE {0}}
  /\ dailyUsage = getTodayUsage(storage)
  /\ activeTab = FirstTab(panel)
  /\ status = ""
  /\ now = 0
  /\ design = <<>>
  /\ running = [c \in CallIds |-> NoCall]
  /\ timers = NoTimers

NextPanel ==
  \/ \E preset \in PresetSamples : onAddPreset(preset)
  \/ onAddFromLibrary
  \/ onDeleteFrame
  \/ onFileSelect
  \/ onClear
  \/ ClearTimerFires
  \/ StatusTimerFires
  \/ onUnlock
  \/ onConvertToFrame
  \/ onBatchConvert
  \/ onConvertTextToFrame
  \/ onConvertShapeToFrame
  \/ \E c \in CallIds :
       \/ FetchSettles(c)
       \/ AddResolves(c)
       \/ AddRejects(c)
       \/ DelayElapses(c)

\* the presets and the conversions
SpecPanel == InitPanel /\ [][NextPanel]_vars

NextEffects ==
  \/ \E preset \in PresetSamples : onAddPreset(preset)
  \/ onClear
  \/ StatusTimerFires
  \/ onUnlock
  \/ onAddWithEffect
  \/ \E c \in CallIds :
       \/ AddResolves(c)
       \/ AddRejects(c)
       \/ DelayElapses(c)
       \/ BoxResolves(c)
       \/ LayerResolves(c)
       \/ FrameResolves(c)
       \/ EffectRejects(c)

\* the presets and the effects
SpecEffects == InitPanel /\ [][NextEffects]_vars

-----------------------------------------------------------------------------
(* The frame library on its own (SpecLibrary): saveFrame and deleteFrame   *)
(* called in any order on a stored library.  Date.now() never goes back;   *)
(* two calls may read the same millisecond and draw the same suffix.       *)

\* the library after n frames were saved one millisecond apart
Prefilled(n) ==
  [i \in 1..n |-> [id |-> <<n + 1 - i, "k3x9">>, name |-> "Shape Frame",
                   timestamp |-> n + 1 - i]]

StoredLibraries == {Prefilled(n) : n \in {0, 1, LibraryCap - 1, LibraryCap}}

InitLibrary ==
  /\ ver = "server"
  /\ ServerIdle
  /\ panel = "tiers"
  /\ isPro = FALSE
  /\ isConverting = FALSE
  /\ selectedFile = NoFile
  /\ dailyUsage = 0
  /\ activeTab = FirstTab(panel)
  /\ status = ""
  /\ \E lib \in StoredLibraries :
       /\ storage = [usage |-> 0, library |-> lib]
       /\ now = Len(lib)
  /\ design = <<>>
  /\ running = [c \in CallIds |-> NoCall]
  /\ timers = NoTimers
  /\ arg = [library |-> getSavedFrames(storage)]
  /\ ret = [fn |-> "none", calls |-> 0]

\* saveFrame({ name, paths, viewBox })
CallSaveFrame ==
  /\ ret.calls < MaxLibraryCalls
  /\ \E t \in {now, now + 1}, rnd \in Suffixes :
       /\ now' = t
       /\ storage' = [storage EXCEPT !.library = saveFrame(@, "Shape Frame", t, rnd)]
       /\ ret' = [fn |-> "saveFrame", calls |-> ret.calls + 1, id |-> <<t, rnd>>]
  /\ arg' = [library |-> getSavedFrames(storage)]
  /\ UNCHANGED <<panel, isPro, isConverting, selectedFile, dailyUsage, activeTab, status,
                 design, running, timers, serverVars>>

\* the ids deleteFrame is called with: of the two newest frames, of the
\* oldest frame, and of no frame
DeletedIds(lib) ==
  {lib[i].id : i \in {1, 2, Len(lib)} \cap (1..Len(lib))} \cup {<<0, "k3x9">>}

\* deleteFrame(id)
CallDeleteFrame ==
  /\ ret.calls < MaxLibraryCalls
  /\ \E id \in DeletedIds(getSavedFrames(storage)) :
       /\ storage' = [storage EXCEPT !.library = deleteFrame(@, id)]
       /\ ret' = [fn |-> "deleteFrame", calls |-> ret.calls + 1, id |-> id]
  /\ arg' = [library |-> getSavedFrames(storage)]
  /\ UNCHANGED <<panel, isPro, isConverting, selectedFile, dailyUsage, activeTab, status,
                 now, design, running, timers, serverVars>>

NextLibrary ==
  \/ CallSaveFrame
  \/ CallDeleteFrame

SpecLibrary == InitLibrary /\ [][NextLibrary]_vars

\* the positions of the frames of lib whose id is not id
Others(lib, id) == {i \in 1..Len(lib) : lib[i].id # id}

\* the k-th of a set of positions
Kth(S, k) == CHOOSE i \in S : Cardinality({j \in S : j < i}) = k - 1

\* C28: the stored library never holds more than 50 frames and is ordered
\* newest first; after saveFrame the new frame is at the head, the frames
\* behind it are the frames of before in their order, and only the oldest
\* are missing; after deleteFrame the library is the frames of before whose
\* id is not the given one, in their order
C28_LibraryCappedNewestFirst ==
  LET lib == getSavedFrames(storage)
      before == arg.library
  IN /\ Len(lib) <= LibraryCap
     /\ \A i \in 1..Len(lib), j \in 1..Len(lib) :
          i < j => lib[i].timestamp >= lib[j].timestamp
     /\ ret.fn = "saveFrame" =>
          /\ lib # <<>>
          /\ lib[1].id = ret.id
          /\ Len(lib) = Min(Len(before) + 1, LibraryCap)
          /\ \A i \in 2..Len(lib) : lib[i] = before[i - 1]
     /\ ret.fn = "deleteFrame" =>
          /\ Len(lib) = Cardinality(Others(before, ret.id))
          /\ \A k \in 1..Len(lib) : lib[k] = before[Kth(Others(before, ret.id), k)]

\* a full library that has lost its oldest frames to later saves loses two
\* frames with the same id to one deleteFrame
C28_Witness ==
  /\ ret.fn = "deleteFrame"
  /\ Len(arg.library) = LibraryCap
  /\ arg.library[LibraryCap].timestamp > 1
  /\ Len(getSavedFrames(storage)) = LibraryCap - 2

-----------------------------------------------------------------------------
(* C29: addFrameWithEffect (SpecEffects).                                  *)

\* the positions in the design of the elements call c added
AddedBy(c) == {i \in 1..Len(design) : design[i].call = c}

DropTargetsOf(c) == {i \in AddedBy(c) : design[i].fill = "dropTarget"}

LayersAddedBy(c) == {i \in AddedBy(c) : design[i].fill = "color"}

ReturnedNormally(c) ==
  running[c].fn = "onAddWithEffect" /\ running[c].inner = "returned"

\* C29: a call of addFrameWithEffect never adds the drop target twice; when
\* it has returned normally it has added the drop target once, after every
\* other element it added; if no await rejected, the elements before it are
\* the layers of the effect (two for double, one for outline, glow and
\* shadow, none for none), and if an effect layer or the first attempt at the
\* drop target was rejected the drop target is there all the same
C29_DropTargetOnceAndLast ==
  \A c \in CallIds :
    running[c].fn = "onAddWithEffect" =>
      /\ Cardinality(DropTargetsOf(c)) <= 1
      /\ Cardinality(LayersAddedBy(c)) <= LayersOf(running[c].effect)
      /\ ReturnedNormally(c) =>
           /\ Cardinality(DropTargetsOf(c)) = 1
           /\ \A i \in DropTargetsOf(c), j \in LayersAddedBy(c) : j < i
           /\ ~running[c].caught =>
                Cardinality(LayersAddedBy(c)) = LayersOf(running[c].effect)

\* a double effect whose second layer was rejected: one layer, then the
\* drop target from the catch block, while another call added in between
C29_Witness ==
  \E c \in CallIds :
    /\ ReturnedNormally(c)
    /\ running[c].effect = "double"
    /\ running[c].caught
    /\ Cardinality(LayersAddedBy(c)) = 1
    /\ \E i \in 1..Len(design) :
         /\ design[i].call # c
         /\ \E j \in LayersAddedBy(c) : j < i
         /\ \E k \in DropTargetsOf(c) : i < k

-----------------------------------------------------------------------------
(* C24 .. C27: the panel's conversions and presets (SpecPanel).            *)

\* the handlers that send a request to the backend
BackendConverters ==
  {"onConvertToFrame", "onBatchConvert", "onConvertTextToFrame", "onConvertShapeToFrame"}

\* call c has issued its request and its handler has not finished
InFlight(c) ==
  running[c].fn \in BackendConverters /\ running[c].pc # "returned"

\* C24: at most one backend conversion is in flight at any time, and
\* isConverting is true from the moment a request is issued until its handler
\* finishes, whatever clearFileSelection does meanwhile
C24_OneConversionInFlight ==
  /\ Cardinality({c \in CallIds : InFlight(c)}) <= 1
  /\ (\E c \in CallIds : InFlight(c)) => isConverting

\* C25: for a user who is not Pro the usage counted for the day never
\* exceeds FREE_DAILY_LIMIT
C25_UsageWithinDailyLimit ==
  (HasTiers /\ ~isPro) => getTodayUsage(storage) <= FREE_DAILY_LIMIT

\* the files of the PNG conversions that have scheduled an auto-clear timer
Converted ==
  {running[c].file : c \in {d \in CallIds : /\ running[d].fn = "onConvertToFrame"
                                             /\ running[d].pc = "returned"
                                             /\ running[d].frames = 1}}

\* C26: when an auto-clear timer fires while the selected file is not a
\* file that was converted, the file stays selected and isConverting stays as
\* it is
C26_TimerClearsOnlyConverted ==
  [][(/\ timers'.clearFileSelection < timers.clearFileSelection
      /\ selectedFile # NoFile
      /\ selectedFile \notin Converted)
     => (selectedFile' = selectedFile /\ isConverting' = isConverting)]_vars

\* the handlers of the Pro features
ProHandlers ==
  {"onBatchConvert", "onConvertTextToFrame", "onConvertShapeToFrame", "onAddWithEffect"}

\* call c is a Pro feature: a Pro handler or the preset of a Pro shape
IsProCall(c) ==
  \/ running[c].fn \in ProHandlers
  \/ running[c].fn = "onAddPreset" /\ running[c].preset \in PRO_SHAPES

\* C27: while isPro is false no call of a Pro handler or of a Pro preset has
\* got past its check, so none has sent a request or added an element; and a
\* step that switches the tab while isPro is false switches to the Pro tab,
\* sets the upgrade message and leaves the design, the calls in progress and
\* the storage alone
C27_ProFeaturesLocked ==
  /\ [](HasTiers /\ ~isPro =>
          /\ \A c \in CallIds : ~IsProCall(c)
          /\ \A i \in 1..Len(design) : ~IsProCall(design[i].call))
  /\ [][(HasTiers /\ ~isPro /\ ~isPro' /\ activeTab' # activeTab) =>
          /\ activeTab' = "pro"
          /\ status' = "locked"
          /\ UNCHANGED <<design, running, storage, isConverting>>]_vars

\* a Pro shape was clicked by a free user who has free additions left: the
\* upgrade message and the Pro tab, nothing added, nothing in progress
C27_Witness ==
  /\ HasTiers /\ ~isPro
  /\ dailyUsage < FREE_DAILY_LIMIT
  /\ status = "locked"
  /\ activeTab = "pro"
  /\ design = <<>>
  /\ \A c \in CallIds : running[c] = NoCall

-----------------------------------------------------------------------------
(* C30: what flatten mode keeps of a path-data string (SpecDecompose).     *)

\* the record without its white space, and without its last Z when that is
\* taken to be one the decomposer appended
Unclosed(p, appended) ==
  LET q == Squeeze(p)
  IN IF appended /\ q # <<>> /\ q[Len(q)] = "Z" THEN SubSeq(q, 1, Len(q) - 1) ELSE q

\* C30: for a document of one path-data string, the records of a flatten
\* decomposition put end to end give the trimmed string back, white space and
\* appended close commands aside
C30_FlattenLosesNoData ==
  (Called /\ IsFlatten(ret.fn) /\ Len(PathMatches(arg)) = 1) =>
    LET d == PathMatches(arg)[1]
        out == ret.out.paths
    IN \E appended \in [1..Len(out) -> BOOLEAN] :
         Flatten([i \in 1..Len(out) |-> Unclosed(out[i], appended[i])]) = Squeeze(trim(d))

====
